---- MODULE Spec2Model ----
(***************************************************************************)
(* cobra-lambda: the output-capture wrapper (wrapper/wrapper.go) and the   *)
(* Lambda handler built on it (wrapper/lambda.go).                         *)
(*                                                                         *)
(* Goroutines call CobraLambda.Execute on wrapper instances.  Execute      *)
(* takes the instance mutex, creates two OS pipes, points the process-wide *)
(* os.Stdout / os.Stderr at the pipes' write ends, starts one drain        *)
(* goroutine per pipe (io.Copy into io.MultiWriter(sharedBuffer,           *)
(* original)), runs the cobra command, closes the write ends, waits for    *)
(* the drains, restores the globals and returns the buffer's text.         *)
(*                                                                         *)
(* A byte written by the program of call c is the token <<c, k>>: k is the *)
(* position of the write in that program run.                              *)
(*                                                                         *)
(* The second part is the local supervisor (cmd/rpc/main.go with the cli   *)
(* package's Runner): it starts the Lambda binary as a subprocess in its   *)
(* own process group, polls the port until a connection succeeds, dials    *)
(* the RPC server, invokes the function once, prints the output, sends     *)
(* SIGTERM, pings, and on return from main kills and reaps the subprocess. *)
(***************************************************************************)
EXTENDS Integers, Sequences, FiniteSets, TLC

\* Most writes one program run performs.
MaxWrites == 2

\* Most writes one program run performs when captures run side by side.
MaxWritesMulti == 1

\* Capacity of an OS pipe, in tokens: a writer blocks on a full pipe.
PipeCap == 2

\* The readiness window of waitForServer, in polling intervals (the code
\* waits 5 s in intervals of 50 ms).
ReadyWindow == 3

\* Most tokens on the supervisor's command line after the flags.
MaxArgs == 3

\* Most tokens on the remote CLI client's command line.
MaxClArgs == 3

\* The goroutines that call Execute, each once.
Callers == {1, 2}

\* Wrapper instances: at most one per caller.
Wrappers == Callers

Streams == {"out", "err"}

\* The ways the program writes: cmd.Print*/Printf/Println, fmt.Print* or
\* os.Stdout, and os.Stderr.
Apis == {"Print", "Stdout", "Stderr"}

VARIABLES
    osStdout,        \* the process-wide os.Stdout
    osStderr,        \* the process-wide os.Stderr
    kind,            \* kind[c]: "direct" (calls Execute) or "handler" (a handler invocation)
    inst,            \* inst[c]: the wrapper instance caller c calls Execute on
    originalStdout,  \* originalStdout[w]: field of wrapper w
    originalStderr,  \* originalStderr[w]: field of wrapper w
    mu,              \* mu[w]: 0 when unlocked, else the caller that holds w.mu
    cmdCtx,          \* the context set on the cobra command (cmd.SetContext)
    pc,              \* pc[c]: where caller c is in Execute
    pipeEnd,         \* pipeEnd[c][s]: state of the read and write end of c's pipe s
    pipeBuf,         \* pipeBuf[c][s]: tokens written to the pipe and not yet read
    sharedBuffer,    \* sharedBuffer[c]: the threadSafeBuffer of c's call
    drain,           \* drain[c][s]: state of the goroutine draining c's pipe s
    wg,              \* wg[c]: counter of the call's sync.WaitGroup
    written,         \* written[c]: the stream of each write c's program has made
    execErr,         \* execErr[c]: how c's program run ended
    result,          \* result[c]: what Execute returned to c
    handlerResult,   \* handlerResult[c]: what the Lambda handler returned to c
    preStdout,       \* preStdout[c]: os.Stdout when c's call took the mutex
    preStderr,       \* preStderr[c]: os.Stderr when c's call took the mutex
    writeLimit,      \* the most writes a program run performs in this behaviour
    teeLog,          \* teeLog[c][s]: tokens the drain of c's pipe s wrote to the original handle
    brokenReal,      \* the real standard streams on which a write fails
    supPc,           \* where the supervisor's main is
    proc,            \* the subprocess: "none", "running", "zombie" (exited, not waited for), "reaped"
    listening,       \* the subprocess's RPC server accepts connections on the port
    elapsed,         \* polling intervals waitForServer has spent
    conn,            \* the supervisor's RPC client connection: "none", "open", "closed"
    response,        \* what Function.Invoke answered
    supLog,          \* what the supervisor did to the subprocess, in order
    reported,        \* the error the supervisor wrote to stderr
    printed,         \* the supervisor printed the captured output
    exitCode,        \* the supervisor's exit status, -1 while it runs
    request,         \* the payload of the InvokeRequest the supervisor sent
    timeout,         \* the timeout given to waitForServer, in polling intervals
    probes,          \* the probes of waitForServer that failed
    waited,          \* time the supervisor has spent in client.Call, in ticks
    build,           \* which variant of the supervisor's main runs
    mode,            \* the Runner's mode: "Binary" or "GoRun" (--go-run)
    rawArgs,         \* the supervisor's command line after the flags
    pathExists,      \* os.Stat finds the path the command line names
    config,          \* the CommandConfig ParseArgs returned
    cmd,             \* the exec.Cmd CreateCommand returned
    clArgs,          \* os.Args[1:] of the remote CLI client
    clPc,            \* where the remote CLI client's main is
    clParsed,        \* what parseFuncName returned to the client
    clPayload,       \* the Args of the event the client sent
    clExit,          \* the client's exit status, -1 while it runs
    clBuild,         \* which copy of the client's main runs
    clSent           \* the payload the client gave to InvokeSync

\* The state of the capture wrapper and the handler.
wrapVars == <<osStdout, osStderr, kind, inst, originalStdout, originalStderr, mu,
              cmdCtx, pc, pipeEnd, pipeBuf, sharedBuffer, drain, wg, written,
              execErr, result, handlerResult, preStdout, preStderr, writeLimit,
              teeLog, brokenReal>>

\* The supervisor's command line and what it made of it.
cmdVars == <<build, mode, rawArgs, pathExists, config, cmd>>

\* The state of the supervisor and its subprocess.
supVars == <<cmdVars, supPc, proc, listening, elapsed, conn, response, supLog,
             reported, printed, exitCode, request, timeout, probes, waited>>

\* The state of the remote CLI client.
clientVars == <<clArgs, clPc, clParsed, clPayload, clExit, clBuild, clSent>>

vars == <<wrapVars, supVars, clientVars>>

----------------------------------------------------------------------------
\* File handles.

\* The process's real standard stream s.
RealHandle(s) == [k |-> "real", c |-> 0, s |-> s]

\* The write end of the pipe that call c created for stream s.
PipeWriter(c, s) == [k |-> "pipe", c |-> c, s |-> s]

NoPipe == [r |-> "none", w |-> "none"]

OpenPipe == [r |-> "open", w |-> "open"]

\* Mutant of ClosedPipe: the error return after a failed second os.Pipe
\* leaves the first pipe as it is.
ClosedPipeLeftOpen == OpenPipe

\* stdoutWriter.Close(); stdoutReader.Close()
ClosedPipe == [r |-> "closed", w |-> "closed"]

\* The context given to NewCobraLambdaCLI (context.TODO()).
DefaultCtx == 0

\* The context the Lambda runtime passes to handler invocation c, or the ctx
\* argument of the ExecuteContext call of caller c.
InvocationCtx(c) == c

\* cobra with SetOut(nil) / SetErr(nil): Command.Print* write to
\* OutOrStderr(), which is os.Stderr; fmt.Print* write to os.Stdout.
StreamOf(api) == IF api = "Stdout" THEN "out" ELSE "err"

\* The global handle a write through api goes to, read at the time of the write.
TargetOf(api) == IF StreamOf(api) = "out" THEN osStdout ELSE osStderr

\* A write to handle h fails: the file is a pipe end that is closed, or a
\* real stream on which writes fail (a closed descriptor, a full disk, a
\* reader that went away).
WriteFails(h) ==
    \/ h.k = "pipe" /\ pipeEnd[h.c][h.s].w # "open"
    \/ h.k = "real" /\ h.s \in brokenReal

\* A write of n tokens to handle h blocks: the pipe is full.
WriteBlocks(h, n) ==
    /\ h.k = "pipe"
    /\ pipeEnd[h.c][h.s].w = "open"
    /\ Len(pipeBuf[h.c][h.s]) + n > PipeCap

\* Mutant of BufAfterWrite: the pipe hands out the newest bytes first.
BufAfterWriteNewestFirst(h, toks) ==
    IF h.k = "pipe" /\ ~WriteFails(h)
    THEN [pipeBuf EXCEPT ![h.c][h.s] = toks \o @]
    ELSE pipeBuf

\* pipeBuf after the tokens toks were written to handle h.
BufAfterWrite(h, toks) ==
    IF h.k = "pipe" /\ ~WriteFails(h)
    THEN [pipeBuf EXCEPT ![h.c][h.s] = @ \o toks]
    ELSE pipeBuf

----------------------------------------------------------------------------
\* What Execute returns.

NoResult == [returned |-> FALSE, nonnil |-> FALSE, text |-> <<>>, err |-> "none"]

\* return nil, err
PipeError == [returned |-> TRUE, nonnil |-> FALSE, text |-> <<>>, err |-> "pipe"]

\* Mutant of OutputCapture: the capture is dropped when the program failed.
OutputCaptureDroppedOnError(buf, e) ==
    [returned |-> TRUE, nonnil |-> e = "nil",
     text |-> IF e = "nil" THEN buf ELSE <<>>, err |-> e]

\* Mutant of OutputCapture: an empty buffer gives no capture at all.
OutputCaptureNilWhenEmpty(buf, e) ==
    [returned |-> TRUE, nonnil |-> buf # <<>>, text |-> buf, err |-> e]

\* threadSafeBuffer.String()
BufferString(buf) == buf

\* return &OutputCapture{Stdout: sharedBuffer.String()}, execErr
OutputCapture(buf, e) ==
    [returned |-> TRUE, nonnil |-> TRUE, text |-> BufferString(buf), err |-> e]

\* Mutant of NewBuffer: the buffer is kept in the wrapper and never reset, so
\* a call starts with what an earlier call on the instance left in it.
NewBufferReused(c) ==
    LET earlier == {d \in Callers \ {c} : inst[d] = inst[c] /\ sharedBuffer[d] # <<>>}
    IN IF earlier = {} THEN <<>> ELSE sharedBuffer[CHOOSE d \in earlier : TRUE]

\* sharedBuffer := &threadSafeBuffer{}
NewBuffer(c) == <<>>

----------------------------------------------------------------------------
\* The supervisor: main of cmd/rpc with the cli package's Runner, its
\* subprocess, and the subprocess's RPC server.  The repository holds the
\* program in several variants; build names the one that runs:
\*   "runner"         main with the cli package
\*   "runnerVariant"  main with the variant of the cli package
\*   "plain"          the variant of main that starts `go run` itself
\*   "client"         the variant of main that only dials and invokes

RunnerBuilds == {"runner", "runnerVariant"}

\* A token is a sequence of pieces; ".go" is the piece strings.HasSuffix
\* looks for.
TokBinary == <<"lambda">>

TokSource == <<"main", ".go">>

TokArg == <<"arg">>

TokHelp == <<"-h">>

ArgTokens == {TokBinary, TokSource, TokArg, TokHelp}

\* The argument lists of at most n tokens.
ArgLists(n) == UNION {[1..k -> ArgTokens] : k \in 0..n}

\* strings.HasSuffix(tok, ".go")
HasSuffixGo(tok) == Len(tok) > 0 /\ tok[Len(tok)] = ".go"

\* args[from:] of Go, from counted from 0.
SliceFrom(args, from) == SubSeq(args, from + 1, Len(args))

\* return nil, fmt.Errorf(...)
ConfigError(e) == [err |-> e, LambdaPath |-> <<>>, LambdaArgs |-> <<>>]

\* return config, nil
Config(path, rest) == [err |-> "nil", LambdaPath |-> path, LambdaArgs |-> rest]

\* Mutant of ParseArgs: the forwarded arguments start one token late.
ParseArgsSkipsOne(m, args) ==
    IF Len(args) < 1 THEN ConfigError("missing")
    ELSE IF m = "GoRun" /\ ~HasSuffixGo(args[1]) THEN ConfigError("invalid")
    ELSE Config(args[1], IF Len(args) > 2 THEN SliceFrom(args, 2) ELSE <<>>)

\* Runner.ParseArgs: no token is an error; in ModeGoRun the first token must
\* end in ".go"; the path is args[0], the arguments are args[1:].
ParseArgs(m, args) ==
    IF Len(args) < 1 THEN ConfigError("missing")
    ELSE IF m = "GoRun" /\ ~HasSuffixGo(args[1]) THEN ConfigError("invalid")
    ELSE Config(args[1], IF Len(args) > 1 THEN SliceFrom(args, 1) ELSE <<>>)

\* Runner.ParseArgs of the variant: ModeBinary as above; ModeGoRun wants two
\* tokens, takes args[0] as the path and args[2:] as the arguments.
ParseArgsVariant(m, args) ==
    IF m = "Binary"
    THEN IF Len(args) < 1 THEN ConfigError("missing")
         ELSE Config(args[1], IF Len(args) > 1 THEN SliceFrom(args, 1) ELSE <<>>)
    ELSE IF Len(args) < 2 THEN ConfigError("missing")
         ELSE Config(args[1], IF Len(args) > 2 THEN SliceFrom(args, 2) ELSE <<>>)

\* The variant of main reads os.Args itself: no argument prints the help and
\* exits 1, -h or --help prints it and exits 0; lambdaPath := os.Args[1],
\* lambdaArgs := os.Args[2:].
ParseOsArgs(args) ==
    IF Len(args) < 1 THEN ConfigError("missing")
    ELSE IF args[1] = TokHelp THEN ConfigError("help")
    ELSE Config(args[1], IF Len(args) > 1 THEN SliceFrom(args, 1) ELSE <<>>)

\* What the build makes of the command line.
ParseOf(b, m, args) ==
    IF b = "runner" THEN ParseArgs(m, args)
    ELSE IF b = "runnerVariant" THEN ParseArgsVariant(m, args)
    ELSE IF b = "plain" THEN ParseOsArgs(args)
    ELSE Config(<<>>, args)

\* const lambdaServerPort = "8001"
LambdaServerPort == 8001

NoConfig == [err |-> "unset", LambdaPath |-> <<>>, LambdaArgs |-> <<>>]

NoCommand == [err |-> "unset", argv |-> <<>>, Setpgid |-> FALSE, port |-> 0]

\* return nil, fmt.Errorf("not found at %s", ...)
CommandError == [err |-> "notFound", argv |-> <<>>, Setpgid |-> FALSE, port |-> 0]

\* The argument vector of exec.Command for the mode.
CommandLine(m, cfg) ==
    IF m = "Binary" THEN <<cfg.LambdaPath>> \o cfg.LambdaArgs
    ELSE <<<<"go">>, <<"run">>, cfg.LambdaPath>> \o cfg.LambdaArgs

\* Mutant of CreateCommand: the command is not given a process group of its
\* own.
CreateCommandNoSetpgid(m, cfg, exists, port) ==
    IF ~exists THEN CommandError
    ELSE [err |-> "nil", argv |-> CommandLine(m, cfg), Setpgid |-> FALSE,
          port |-> port]

\* Runner.CreateCommand: os.Stat of the path, exec.Command for the mode,
\* SysProcAttr{Setpgid: true}, Env with _LAMBDA_SERVER_PORT = r.ServerPort.
CreateCommand(m, cfg, exists, port) ==
    IF ~exists THEN CommandError
    ELSE [err |-> "nil", argv |-> CommandLine(m, cfg), Setpgid |-> TRUE,
          port |-> port]

\* Runner.CreateCommand of the variant: the Stat is made inside each case of
\* the switch; it also sets cmd.Stdout and cmd.Stderr by r.Debug, which is
\* not part of the model.
CreateCommandVariant(m, cfg, exists, port) ==
    IF m = "Binary"
    THEN IF ~exists THEN CommandError
         ELSE [err |-> "nil", argv |-> <<cfg.LambdaPath>> \o cfg.LambdaArgs,
               Setpgid |-> TRUE, port |-> port]
    ELSE IF ~exists THEN CommandError
         ELSE [err |-> "nil",
               argv |-> <<<<"go">>, <<"run">>, cfg.LambdaPath>> \o cfg.LambdaArgs,
               Setpgid |-> TRUE, port |-> port]

\* The variant of main: os.Stat(lambdaPath); exec.Command("go", "run",
\* lambdaPath) with _LAMBDA_SERVER_PORT in cmd.Env and no SysProcAttr.
PlainCommand(cfg, exists, port) ==
    IF ~exists THEN CommandError
    ELSE [err |-> "nil", argv |-> <<<<"go">>, <<"run">>, cfg.LambdaPath>>,
          Setpgid |-> FALSE, port |-> port]

\* The command the build makes for the config.
CommandOf(b, m, cfg, exists) ==
    IF b = "runner" THEN CreateCommand(m, cfg, exists, LambdaServerPort)
    ELSE IF b = "runnerVariant" THEN CreateCommandVariant(m, cfg, exists, LambdaServerPort)
    ELSE PlainCommand(cfg, exists, LambdaServerPort)

\* One thing the supervisor did to the subprocess: ev is "probe", "dial",
\* "invoke", "SIGTERM", "ping", "close", "SIGKILL" or "wait"; to is what it was
\* addressed to; ok tells whether the call returned without an error.
Event(ev, to, ok) == [ev |-> ev, to |-> to, ok |-> ok]

\* The events ev in the log so far.
Logged(ev) == {i \in 1..Len(supLog) : supLog[i].ev = ev}

\* Mutant of DeadlinePassed: the loop of waitForServer is never entered.
DeadlinePassedAtOnce(e) == TRUE

\* !time.Now().Before(deadline), with deadline := time.Now().Add(timeout)
DeadlinePassed(e) == e >= timeout

\* Mutant of ReadinessVerdict: waitForServer returns nil when the deadline
\* has passed.
ReadinessVerdictAlwaysNil(reached) == "nil"

\* What waitForServer returns: nil after a probe connected, else the timeout
\* error.
ReadinessVerdict(reached) == IF reached THEN "nil" ELSE "timeout"

\* Runner.KillProcessGroup: syscall.Getpgid(pid), then syscall.Kill(-pgid,
\* sig).  A running process group gets the signal.  For a subprocess that
\* has exited and is not yet waited for, the platform decides whether the
\* calls still succeed; for one that is gone or was never started they fail.
KillProcessGroup(p) ==
    IF p = "running" THEN {TRUE}
    ELSE IF p = "zombie" THEN {TRUE, FALSE}
    ELSE {FALSE}

\* cmd.Process.Signal(sig) and cmd.Process.Kill() of the variant of main:
\* the signal goes to the one process.
ProcessSignal(p) ==
    IF p = "running" THEN {TRUE}
    ELSE IF p = "zombie" THEN {TRUE, FALSE}
    ELSE {FALSE}

\* What the build's signals are addressed to.
SignalTarget(b) == IF b = "plain" THEN "pid" ELSE "group"

\* The outcomes of sending a signal in the build.
SignalOutcomes(b, p) == IF b = "plain" THEN ProcessSignal(p) ELSE KillProcessGroup(p)

\* The signal the build sends where main announces SIGTERM.
GracefulSignal(b) == IF b = "plain" THEN "SIGKILL" ELSE "SIGTERM"

\* The subprocess after a signal was delivered: SIGKILL ends it, SIGTERM
\* leaves the decision to the subprocess.
AfterSignal(p, sig, delivered) ==
    IF delivered /\ sig = "SIGKILL" /\ p = "running" THEN "zombie" ELSE p

\* A signal to the subprocess's group reaches the supervisor when the
\* subprocess was left in the supervisor's process group.
ReachesSupervisor(c, to, delivered) == delivered /\ to = "group" /\ ~c.Setpgid

\* Mutant of MainReturnCode: the error of the cleanup's kill becomes the exit
\* status.
MainReturnCodeFromKill(killOk) == IF killOk THEN 0 ELSE 1

\* main returns after the deferred functions ran; the deferred cleanup
\* assigns both errors to the blank identifier.
MainReturnCode(killOk) == 0

\* os.Exit(1) after the message msg: the process ends at once, deferred
\* functions are not run.
OsExit(msg) ==
    /\ supPc' = "exited"
    /\ exitCode' = 1
    /\ reported' = msg

----------------------------------------------------------------------------
\* The remote CLI client: main of cmd/clctl and parseFuncName.

\* A token of the client's command line is a sequence of pieces: "-" and "="
\* are the characters parseFuncName looks for, any other piece is a run of
\* other characters.
ClTokens ==
    { <<"-", "-", "name">>, <<"-", "name">>,
      <<"-", "-", "name", "=", "fn">>, <<"-", "-", "name", "=">>,
      <<"-", "-", "help">>, <<"-", "h">>,
      <<"-", "-">>, <<"-">>,
      <<"-", "-", "other">>, <<"-", "-", "-", "name">>, <<"-", "=", "fn">>,
      <<"a">>, <<"b">> }

\* The command lines of at most n tokens.
ClArgLists(n) == UNION {[1..k -> ClTokens] : k \in 0..n}

\* The pieces that are one character long.
OneCharPieces == {"-", "=", "h", "a", "b"}

\* len(s) < 2
ShorterThanTwo(s) == Len(s) = 0 \/ (Len(s) = 1 /\ s[1] \in OneCharPieces)

\* What parseFuncName returns: (value, ok, err).
ParseResult(v, ok, e) == [value |-> v, ok |-> ok, err |-> e]

\* Nothing parsed yet.
NoParse == ParseResult(<<>>, FALSE, "unset")

\* Mutant of FirstEquals: the loop never finds the "=".
FirstEqualsNever(name) == 0

\* The index of the first "=" of name that is not its first character, 0 when
\* there is none: for i := 1; i < len(name); i++ { if name[i] == '=' ...
FirstEquals(name) ==
    LET S == {i \in 2..Len(name) : name[i] = "="}
    IN IF S = {} THEN 0 ELSE CHOOSE i \in S : \A j \in S : i <= j

\* parseFuncName(args)
parseFuncName(args) ==
    IF Len(args) = 0 THEN ParseResult(<<>>, FALSE, "nil")
    ELSE
    LET s == args[1]
    IN IF ShorterThanTwo(s) \/ s[1] # "-" THEN ParseResult(<<>>, FALSE, "nil")
       ELSE
       LET numMinuses == IF s[2] = "-" THEN 2 ELSE 1
       IN IF numMinuses = 2 /\ Len(s) = 2 THEN ParseResult(<<>>, FALSE, "nil")
          ELSE
          LET name0 == SliceFrom(s, numMinuses)
          IN IF Len(name0) = 0 \/ name0[1] \in {"-", "="}
             THEN ParseResult(<<>>, FALSE, "badSyntax")
             ELSE
             LET eq == FirstEquals(name0)
                 name == IF eq # 0 THEN SubSeq(name0, 1, eq - 1) ELSE name0
                 rest == SliceFrom(args, 1)
                 hasValue == eq # 0 \/ Len(rest) > 0
                 value == IF eq # 0 THEN SliceFrom(name0, eq)
                          ELSE IF Len(rest) > 0 THEN rest[1]
                          ELSE <<>>
             IN IF name \in {<<"help">>, <<"h">>}
                THEN ParseResult(<<>>, FALSE, "help")
                ELSE IF name # <<"name">>
                THEN ParseResult(<<>>, FALSE, "notValid")
                ELSE IF ~hasValue
                THEN ParseResult(<<>>, FALSE, "needsArg")
                ELSE ParseResult(value, TRUE, "nil")

\* A JSON document as far as the event is concerned: t is "object" or
\* "array"; an object has one key, whose value arr is "array" or "null"; items
\* are the strings of the array.
NoDoc == [t |-> "none", key |-> "", arr |-> "none", items |-> <<>>]

\* json.Marshal(CobraLambdaEvent{Args: args}): the struct encodes as an
\* object with the key "args"; a nil slice encodes as null, any other as an
\* array.
MarshalEvent(args, isNil) ==
    [t |-> "object", key |-> "args", arr |-> IF isNil THEN "null" ELSE "array",
     items |-> IF isNil THEN <<>> ELSE args]

\* json.Marshal(args) of a []string: an array, no object around it.
MarshalList(args) == [t |-> "array", key |-> "", arr |-> "array", items |-> args]

\* UnmarshalEvent: json.Unmarshal into &CobraLambdaEvent{} fails on a
\* document that is not an object; null leaves Args nil.
UnmarshalEvent(doc) ==
    IF doc.t # "object" THEN [err |-> "decode", Args |-> <<>>]
    ELSE [err |-> "nil",
          Args |-> IF doc.key = "args" /\ doc.arr = "array" THEN doc.items ELSE <<>>]

\* os.Args[3:]: the index, counted in os.Args[1:], from which the client
\* forwards.
ForwardedFrom == 2

----------------------------------------------------------------------------
\* State after construction: NewCobraLambdaCLI has built every wrapper while
\* the globals were the real streams.

\* The supervisor when main begins, flags parsed.
InitMain ==
    /\ supPc = "parse"
    /\ config = NoConfig
    /\ cmd = NoCommand
    /\ listening = FALSE
    /\ elapsed = 0
    /\ conn = "none"
    /\ response = "none"
    /\ supLog = <<>>
    /\ reported = "none"
    /\ printed = FALSE
    /\ exitCode = -1
    /\ request = NoDoc
    /\ probes = 0
    /\ waited = 0

\* No supervisor runs beside the wrapper.
InitSupervisor ==
    /\ InitMain
    /\ build = "runner"
    /\ mode = "Binary"
    /\ rawArgs = <<>>
    /\ pathExists = FALSE
    /\ proc = "none"
    /\ timeout = ReadyWindow

\* No remote CLI client runs.
InitClient ==
    /\ clArgs = <<>>
    /\ clPc = "idle"
    /\ clParsed = NoParse
    /\ clPayload = <<>>
    /\ clExit = -1
    /\ clBuild = "clctl"
    /\ clSent = NoDoc

InitWrapper ==
    /\ osStdout = RealHandle("out")
    /\ osStderr = RealHandle("err")
    /\ originalStdout = [w \in Wrappers |-> RealHandle("out")]
    /\ originalStderr = [w \in Wrappers |-> RealHandle("err")]
    /\ mu = [w \in Wrappers |-> 0]
    /\ cmdCtx = DefaultCtx
    /\ pipeEnd = [c \in Callers |-> [s \in Streams |-> NoPipe]]
    /\ pipeBuf = [c \in Callers |-> [s \in Streams |-> <<>>]]
    /\ sharedBuffer = [c \in Callers |-> <<>>]
    /\ drain = [c \in Callers |-> [s \in Streams |-> "none"]]
    /\ wg = [c \in Callers |-> 0]
    /\ written = [c \in Callers |-> <<>>]
    /\ execErr = [c \in Callers |-> "none"]
    /\ result = [c \in Callers |-> NoResult]
    /\ handlerResult = [c \in Callers |-> NoResult]
    /\ preStdout = [c \in Callers |-> RealHandle("out")]
    /\ preStderr = [c \in Callers |-> RealHandle("err")]
    /\ teeLog = [c \in Callers |-> [s \in Streams |-> <<>>]]

InitShared ==
    /\ InitWrapper
    /\ brokenReal = {}
    /\ InitSupervisor
    /\ InitClient

\* Where a caller of the given kind starts: at Execute's w.mu.Lock(), at the
\* first line of ExecuteContext, or at the first line of the handler.
EntryOf(k) ==
    IF k = "handler" THEN "handler"
    ELSE IF k = "context" THEN "setContext"
    ELSE "lock"

\* The ctx field of the wrapper that call c runs on: the handler builds its
\* wrapper with the invocation's context, NewCobraLambdaCLI with the default.
WrapperCtx(c) == IF kind[c] = "handler" THEN InvocationCtx(c) ELSE DefaultCtx

\* One capture at a time.  Either every goroutine calls Execute on the same
\* wrapper instance, or the Lambda runtime makes one handler invocation.
Init ==
    /\ InitShared
    /\ writeLimit = MaxWrites
    /\ \/ /\ kind = [c \in Callers |-> "direct"]
          /\ inst = [c \in Callers |-> 1]
          /\ pc = [c \in Callers |-> "lock"]
       \/ /\ kind = [c \in Callers |-> IF c = 1 THEN "handler" ELSE "direct"]
          /\ inst = [c \in Callers |-> c]
          /\ pc = [c \in Callers |-> IF c = 1 THEN "handler" ELSE "idle"]

\* One capture at a time, in a process whose real standard streams may fail
\* on a write.
InitTee ==
    /\ InitWrapper
    /\ InitSupervisor
    /\ InitClient
    /\ brokenReal \in SUBSET Streams
    /\ writeLimit = MaxWrites
    /\ \/ /\ kind = [c \in Callers |-> "direct"]
          /\ inst = [c \in Callers |-> 1]
          /\ pc = [c \in Callers |-> "lock"]
       \/ /\ kind = [c \in Callers |-> IF c = 1 THEN "handler" ELSE "direct"]
          /\ inst = [c \in Callers |-> c]
          /\ pc = [c \in Callers |-> IF c = 1 THEN "handler" ELSE "idle"]

\* Captures side by side: goroutine 1 calls Execute on a wrapper of its own
\* while goroutine 2 runs a handler invocation, which makes its own wrapper,
\* or calls Execute on another wrapper made by NewCobraLambdaCLI.
InitMulti ==
    /\ InitShared
    /\ writeLimit = MaxWritesMulti
    /\ \E k \in {"direct", "handler"} :
         kind = [c \in Callers |-> IF c = 1 THEN "direct" ELSE k]
    /\ inst = [c \in Callers |-> c]
    /\ pc = [c \in Callers |-> EntryOf(kind[c])]

\* Calls that carry a context, side by side: every goroutine calls
\* ExecuteContext on the same wrapper with a context of its own, or the Lambda
\* runtime makes handler invocations on the same command, each with its own
\* context.
InitContext ==
    /\ InitShared
    /\ writeLimit = MaxWritesMulti
    /\ \/ /\ kind = [c \in Callers |-> "context"]
          /\ inst = [c \in Callers |-> 1]
       \/ /\ kind = [c \in Callers |-> "handler"]
          /\ inst = [c \in Callers |-> c]
    /\ pc = [c \in Callers |-> EntryOf(kind[c])]

----------------------------------------------------------------------------
\* CobraLambda.Execute, step by step.

\* Mutant of MutexFree: Execute never waits for the mutex.
MutexFreeAlways(w) == TRUE

\* w.mu.Lock() succeeds.
MutexFree(w) == mu[w] = 0

\* w.mu.Lock(); defer w.mu.Unlock(); sharedBuffer := &threadSafeBuffer{}
Lock(c) ==
    /\ pc[c] = "lock"
    /\ MutexFree(inst[c])
    /\ mu' = [mu EXCEPT ![inst[c]] = c]
    /\ sharedBuffer' = [sharedBuffer EXCEPT ![c] = NewBuffer(c)]
    /\ preStdout' = [preStdout EXCEPT ![c] = osStdout]
    /\ preStderr' = [preStderr EXCEPT ![c] = osStderr]
    /\ pc' = [pc EXCEPT ![c] = "pipeStdout"]
    /\ UNCHANGED <<kind, cmdCtx, handlerResult, osStdout, osStderr, inst,
                   originalStdout, originalStderr, pipeEnd, pipeBuf, drain,
                   wg, written, execErr, result, teeLog,
                   writeLimit, brokenReal, supVars, clientVars>>

\* stdoutReader, stdoutWriter, err := os.Pipe(); if err != nil { return nil, err }
PipeStdout(c) ==
    /\ pc[c] = "pipeStdout"
    /\ \E ok \in BOOLEAN :
         IF ok
         THEN /\ pipeEnd' = [pipeEnd EXCEPT ![c]["out"] = OpenPipe]
              /\ pc' = [pc EXCEPT ![c] = "pipeStderr"]
              /\ UNCHANGED result
         ELSE /\ result' = [result EXCEPT ![c] = PipeError]
              /\ pc' = [pc EXCEPT ![c] = "unlock"]
              /\ UNCHANGED pipeEnd
    /\ UNCHANGED <<kind, cmdCtx, handlerResult, osStdout, osStderr, inst,
                   originalStdout, originalStderr, mu, pipeBuf,
                   sharedBuffer, drain, wg, written, execErr, preStdout,
                   preStderr, teeLog,
                   writeLimit, brokenReal, supVars, clientVars>>

\* stderrReader, stderrWriter, err := os.Pipe()
\* if err != nil { stdoutWriter.Close(); stdoutReader.Close(); return nil, err }
PipeStderr(c) ==
    /\ pc[c] = "pipeStderr"
    /\ \E ok \in BOOLEAN :
         IF ok
         THEN /\ pipeEnd' = [pipeEnd EXCEPT ![c]["err"] = OpenPipe]
              /\ pc' = [pc EXCEPT ![c] = "redirect"]
              /\ UNCHANGED result
         ELSE /\ pipeEnd' = [pipeEnd EXCEPT ![c]["out"] = ClosedPipe]
              /\ result' = [result EXCEPT ![c] = PipeError]
              /\ pc' = [pc EXCEPT ![c] = "unlock"]
    /\ UNCHANGED <<kind, cmdCtx, handlerResult, osStdout, osStderr, inst,
                   originalStdout, originalStderr, mu, pipeBuf,
                   sharedBuffer, drain, wg, written, execErr, preStdout,
                   preStderr, teeLog,
                   writeLimit, brokenReal, supVars, clientVars>>

\* defer restore; os.Stdout = stdoutWriter; os.Stderr = stderrWriter; start the
\* two drain goroutines (wg.Add(1) each); SetOut(nil); SetErr(nil); SetArgs(args).
\* The args only decide what the program does, and the program below makes
\* every choice of writes and outcome.  The two assignments to the globals
\* are one step.  The channel done has room for both sends and is only
\* closed after wg.Wait, so it never blocks a drain and is left out.
Redirect(c) ==
    /\ pc[c] = "redirect"
    /\ osStdout' = PipeWriter(c, "out")
    /\ osStderr' = PipeWriter(c, "err")
    /\ drain' = [drain EXCEPT ![c] = [s \in Streams |-> "run"]]
    /\ wg' = [wg EXCEPT ![c] = 2]
    /\ pc' = [pc EXCEPT ![c] = "run"]
    /\ UNCHANGED <<kind, cmdCtx, handlerResult, inst, originalStdout,
                   originalStderr, mu, pipeEnd, pipeBuf, sharedBuffer,
                   written, execErr, result, preStdout, preStderr, teeLog,
                   writeLimit, brokenReal, supVars, clientVars>>

\* The program (w.cmd.Execute()) writes one token through api.
ProgramWrite(c) ==
    /\ pc[c] = "run"
    /\ Len(written[c]) < writeLimit
    /\ \E api \in Apis :
         LET h == TargetOf(api)
             tok == <<c, Len(written[c]) + 1>>
         IN /\ ~WriteBlocks(h, 1)
            /\ pipeBuf' = BufAfterWrite(h, <<tok>>)
            /\ written' = [written EXCEPT ![c] = Append(@, StreamOf(api))]
    /\ UNCHANGED <<kind, cmdCtx, handlerResult, osStdout, osStderr, inst,
                   originalStdout, originalStderr, mu, pc, pipeEnd,
                   sharedBuffer, drain, wg, execErr, result, preStdout,
                   preStderr, teeLog,
                   writeLimit, brokenReal, supVars, clientVars>>

\* execErr := w.cmd.Execute() returns nil or the program's error.
ProgramReturn(c) ==
    /\ pc[c] = "run"
    /\ \E e \in {"nil", "failed"} : execErr' = [execErr EXCEPT ![c] = e]
    /\ pc' = [pc EXCEPT ![c] = "closeWriters"]
    /\ UNCHANGED <<kind, cmdCtx, handlerResult, osStdout, osStderr, inst,
                   originalStdout, originalStderr, mu, pipeEnd, pipeBuf,
                   sharedBuffer, drain, wg, written, result, preStdout,
                   preStderr, teeLog,
                   writeLimit, brokenReal, supVars, clientVars>>

\* w.cmd.Execute() panics: the deferred functions run, last registered first.
ProgramPanic(c) ==
    /\ pc[c] = "run"
    /\ execErr' = [execErr EXCEPT ![c] = "panic"]
    /\ pc' = [pc EXCEPT ![c] = "deferRestore"]
    /\ UNCHANGED <<kind, cmdCtx, handlerResult, osStdout, osStderr, inst,
                   originalStdout, originalStderr, mu, pipeEnd, pipeBuf,
                   sharedBuffer, drain, wg, written, result, preStdout,
                   preStderr, teeLog,
                   writeLimit, brokenReal, supVars, clientVars>>

\* stdoutWriter.Close(); stderrWriter.Close()
CloseWriters(c) ==
    /\ pc[c] = "closeWriters"
    /\ pipeEnd' = [pipeEnd EXCEPT ![c] = [s \in Streams |-> [@[s] EXCEPT !.w = "closed"]]]
    /\ pc' = [pc EXCEPT ![c] = "wait"]
    /\ UNCHANGED <<kind, cmdCtx, handlerResult, osStdout, osStderr, inst,
                   originalStdout, originalStderr, mu, pipeBuf,
                   sharedBuffer, drain, wg, written, execErr, result,
                   preStdout, preStderr, teeLog,
                   writeLimit, brokenReal, supVars, clientVars>>

\* Mutant of WaitDone: Execute does not wait for the drain goroutines.
WaitDoneAtOnce(c) == TRUE

\* wg.Wait() returns.
WaitDone(c) == wg[c] = 0

\* wg.Wait(); close(done); stdoutReader.Close(); stderrReader.Close()
Wait(c) ==
    /\ pc[c] = "wait"
    /\ WaitDone(c)
    /\ pipeEnd' = [pipeEnd EXCEPT ![c] = [s \in Streams |-> [@[s] EXCEPT !.r = "closed"]]]
    /\ pc' = [pc EXCEPT ![c] = "restore"]
    /\ UNCHANGED <<kind, cmdCtx, handlerResult, osStdout, osStderr, inst,
                   originalStdout, originalStderr, mu, pipeBuf,
                   sharedBuffer, drain, wg, written, execErr, result,
                   preStdout, preStderr, teeLog,
                   writeLimit, brokenReal, supVars, clientVars>>

\* os.Stdout = w.originalStdout; os.Stderr = w.originalStderr
Restore(c) ==
    /\ pc[c] = "restore"
    /\ osStdout' = originalStdout[inst[c]]
    /\ osStderr' = originalStderr[inst[c]]
    /\ pc' = [pc EXCEPT ![c] = "snapshot"]
    /\ UNCHANGED <<kind, cmdCtx, handlerResult, inst, originalStdout,
                   originalStderr, mu, pipeEnd, pipeBuf, sharedBuffer,
                   drain, wg, written, execErr, result, preStdout,
                   preStderr, teeLog,
                   writeLimit, brokenReal, supVars, clientVars>>

\* return &OutputCapture{Stdout: sharedBuffer.String()}, execErr
Snapshot(c) ==
    /\ pc[c] = "snapshot"
    /\ result' = [result EXCEPT ![c] = OutputCapture(sharedBuffer[c], execErr[c])]
    /\ pc' = [pc EXCEPT ![c] = "deferRestore"]
    /\ UNCHANGED <<kind, cmdCtx, handlerResult, osStdout, osStderr, inst,
                   originalStdout, originalStderr, mu, pipeEnd, pipeBuf,
                   sharedBuffer, drain, wg, written, execErr, preStdout,
                   preStderr, teeLog,
                   writeLimit, brokenReal, supVars, clientVars>>

\* Mutant of DeferredRestore: the streams are restored only by the last lines
\* of the normal control flow, no deferred function restores them.
DeferredRestoreMissing(c) ==
    /\ pc[c] = "deferRestore"
    /\ pc' = [pc EXCEPT ![c] = "unlock"]
    /\ UNCHANGED <<kind, cmdCtx, handlerResult, osStdout, osStderr, inst,
                   originalStdout, originalStderr, mu, pipeEnd, pipeBuf,
                   sharedBuffer, drain, wg, written, execErr, result,
                   preStdout, preStderr, teeLog,
                   writeLimit, brokenReal, supVars, clientVars>>

\* The deferred func: os.Stdout = w.originalStdout; os.Stderr = w.originalStderr
DeferredRestore(c) ==
    /\ pc[c] = "deferRestore"
    /\ osStdout' = originalStdout[inst[c]]
    /\ osStderr' = originalStderr[inst[c]]
    /\ pc' = [pc EXCEPT ![c] = "unlock"]
    /\ UNCHANGED <<kind, cmdCtx, handlerResult, inst, originalStdout,
                   originalStderr, mu, pipeEnd, pipeBuf, sharedBuffer,
                   drain, wg, written, execErr, result, preStdout,
                   preStderr, teeLog,
                   writeLimit, brokenReal, supVars, clientVars>>

\* Where control goes when Execute ends: a panic unwinds through every
\* caller; a return goes to the caller, or to ExecuteContext's next line.
AfterExecute(c) ==
    IF execErr[c] = "panic" THEN "panicked"
    ELSE IF kind[c] \in {"handler", "context"} THEN "restoreContext"
    ELSE IF kind[c] = "demo" THEN "demoReturn"
    ELSE "returned"

\* Mutant of Unlock: w.mu.Unlock() is a last line of the normal control flow
\* instead of a deferred call, so a panic leaves the mutex locked.
UnlockNotDeferred(c) ==
    /\ pc[c] = "unlock"
    /\ mu' = IF execErr[c] = "panic" THEN mu ELSE [mu EXCEPT ![inst[c]] = 0]
    /\ pc' = [pc EXCEPT ![c] = AfterExecute(c)]
    /\ UNCHANGED <<kind, cmdCtx, handlerResult, osStdout, osStderr, inst,
                   originalStdout, originalStderr, pipeEnd, pipeBuf,
                   sharedBuffer, drain, wg, written, execErr, result,
                   preStdout, preStderr, teeLog,
                   writeLimit, brokenReal, supVars, clientVars>>

\* The deferred w.mu.Unlock(); Execute returns, or the panic leaves Execute.
Unlock(c) ==
    /\ pc[c] = "unlock"
    /\ mu' = [mu EXCEPT ![inst[c]] = 0]
    /\ pc' = [pc EXCEPT ![c] = AfterExecute(c)]
    /\ UNCHANGED <<kind, cmdCtx, handlerResult, osStdout, osStderr, inst,
                   originalStdout, originalStderr, pipeEnd, pipeBuf,
                   sharedBuffer, drain, wg, written, execErr, result,
                   preStdout, preStderr, teeLog,
                   writeLimit, brokenReal, supVars, clientVars>>

----------------------------------------------------------------------------
\* The drain goroutines.

\* The original handle the drain of stream s of call c tees to.
TeeTarget(c, s) ==
    IF s = "out" THEN originalStdout[inst[c]] ELSE originalStderr[inst[c]]

\* Mutant of Teed: the drain writes to the buffer only, not to the original
\* handle.
TeedNothing(chunk) == <<>>

\* What io.MultiWriter writes to its second writer, the original handle: the
\* chunk it wrote to the first.
Teed(chunk) == chunk

\* One round of io.Copy(io.MultiWriter(sharedBuffer, original), reader): Read
\* returns what the pipe holds; the chunk is written to sharedBuffer, then to
\* the original handle.  A failed write ends io.Copy.  The round is one
\* step: when the original is a full pipe the round waits as a whole.
DrainCopy(c, s) ==
    /\ drain[c][s] = "run"
    /\ pipeEnd[c][s].r = "open"
    /\ pipeBuf[c][s] # <<>>
    /\ LET chunk == pipeBuf[c][s]
           h == TeeTarget(c, s)
           emptied == [pipeBuf EXCEPT ![c][s] = <<>>]
       IN /\ ~WriteBlocks(h, Len(chunk))
          /\ sharedBuffer' = [sharedBuffer EXCEPT ![c] = @ \o chunk]
          /\ IF WriteFails(h)
             THEN /\ pipeBuf' = emptied
                  /\ UNCHANGED teeLog
                  /\ drain' = [drain EXCEPT ![c][s] = "done"]
                  /\ wg' = [wg EXCEPT ![c] = @ - 1]
             ELSE /\ pipeBuf' = IF h.k = "pipe"
                                THEN [emptied EXCEPT ![h.c][h.s] = @ \o Teed(chunk)]
                                ELSE emptied
                  /\ teeLog' = [teeLog EXCEPT ![c][s] = @ \o Teed(chunk)]
                  /\ UNCHANGED <<drain, wg>>
    /\ UNCHANGED <<kind, cmdCtx, handlerResult, osStdout, osStderr, inst,
                   originalStdout, originalStderr, mu, pc, pipeEnd, written,
                   execErr, result, preStdout, preStderr, writeLimit, brokenReal, supVars, clientVars>>

\* Mutant of DrainEnd: the drain takes an empty pipe for the end of the
\* stream, without waiting for the write end to be closed.
DrainEndOnEmpty(c, s) ==
    /\ drain[c][s] = "run"
    /\ pipeBuf[c][s] = <<>>
    /\ drain' = [drain EXCEPT ![c][s] = "done"]
    /\ wg' = [wg EXCEPT ![c] = @ - 1]
    /\ UNCHANGED <<kind, cmdCtx, handlerResult, osStdout, osStderr, inst,
                   originalStdout, originalStderr, mu, pc, pipeEnd, pipeBuf,
                   sharedBuffer, written, execErr, result, preStdout,
                   preStderr, teeLog,
                   writeLimit, brokenReal, supVars, clientVars>>

\* Read returns io.EOF (pipe empty, write end closed) or an error (read end
\* closed): io.Copy returns; done <- true; wg.Done()
DrainEnd(c, s) ==
    /\ drain[c][s] = "run"
    /\ \/ pipeEnd[c][s].r = "closed"
       \/ pipeBuf[c][s] = <<>> /\ pipeEnd[c][s].w = "closed"
    /\ drain' = [drain EXCEPT ![c][s] = "done"]
    /\ wg' = [wg EXCEPT ![c] = @ - 1]
    /\ UNCHANGED <<kind, cmdCtx, handlerResult, osStdout, osStderr, inst,
                   originalStdout, originalStderr, mu, pc, pipeEnd, pipeBuf,
                   sharedBuffer, written, execErr, result, preStdout,
                   preStderr, teeLog,
                   writeLimit, brokenReal, supVars, clientVars>>

----------------------------------------------------------------------------
\* The Lambda handler made by NewCobrLambdaHandler, and ExecuteContext.

\* What the handler returns for what ExecuteContext returned.
HandlerReturn(r) == r

\* return nil, err (the event could not be decoded)
DecodeError == [returned |-> TRUE, nonnil |-> FALSE, text |-> <<>>, err |-> "decode"]

\* Mutant of HandlerEnter: the decode error is recorded but the handler goes
\* on to ExecuteContext instead of returning.
HandlerEnterRunsAnyway(c) ==
    /\ pc[c] = "handler"
    /\ originalStdout' = [originalStdout EXCEPT ![inst[c]] = osStdout]
    /\ originalStderr' = [originalStderr EXCEPT ![inst[c]] = osStderr]
    /\ \E decoded \in BOOLEAN :
         IF decoded
         THEN /\ pc' = [pc EXCEPT ![c] = "setContext"]
              /\ UNCHANGED handlerResult
         ELSE /\ pc' = [pc EXCEPT ![c] = "setContext"]
              /\ handlerResult' = [handlerResult EXCEPT ![c] = DecodeError]
    /\ UNCHANGED <<osStdout, osStderr, kind, inst, mu, cmdCtx, pipeEnd, pipeBuf,
                   sharedBuffer, drain, wg, written, execErr, result,
                   preStdout, preStderr, teeLog,
                   writeLimit, brokenReal, supVars, clientVars>>

\* lambda := &CobraLambda{cmd, ctx, originalStdout: os.Stdout, originalStderr:
\* os.Stderr}; event, err := UnmarshalEvent(eventJSON); if err != nil { return nil, err }
HandlerEnter(c) ==
    /\ pc[c] = "handler"
    /\ originalStdout' = [originalStdout EXCEPT ![inst[c]] = osStdout]
    /\ originalStderr' = [originalStderr EXCEPT ![inst[c]] = osStderr]
    /\ \E decoded \in BOOLEAN :
         IF decoded
         THEN /\ pc' = [pc EXCEPT ![c] = "setContext"]
              /\ UNCHANGED handlerResult
         ELSE /\ pc' = [pc EXCEPT ![c] = "returned"]
              /\ handlerResult' = [handlerResult EXCEPT ![c] = DecodeError]
    /\ UNCHANGED <<osStdout, osStderr, kind, inst, mu, cmdCtx, pipeEnd, pipeBuf,
                   sharedBuffer, drain, wg, written, execErr, result,
                   preStdout, preStderr, teeLog,
                   writeLimit, brokenReal, supVars, clientVars>>

\* ExecuteContext: w.cmd.SetContext(ctx), then Execute(args)
SetContext(c) ==
    /\ pc[c] = "setContext"
    /\ cmdCtx' = InvocationCtx(c)
    /\ pc' = [pc EXCEPT ![c] = "lock"]
    /\ UNCHANGED <<osStdout, osStderr, kind, inst, originalStdout,
                   originalStderr, mu, pipeEnd, pipeBuf, sharedBuffer, drain,
                   wg, written, execErr, result, handlerResult, preStdout,
                   preStderr, teeLog,
                   writeLimit, brokenReal, supVars, clientVars>>

\* ExecuteContext: w.cmd.SetContext(w.ctx); return output, err.  The handler
\* returns that pair.
RestoreContext(c) ==
    /\ pc[c] = "restoreContext"
    /\ cmdCtx' = WrapperCtx(c)
    /\ handlerResult' = IF kind[c] = "handler"
                        THEN [handlerResult EXCEPT ![c] = HandlerReturn(result[c])]
                        ELSE handlerResult
    /\ pc' = [pc EXCEPT ![c] = "returned"]
    /\ UNCHANGED <<osStdout, osStderr, kind, inst, originalStdout,
                   originalStderr, mu, pipeEnd, pipeBuf, sharedBuffer, drain,
                   wg, written, execErr, result, preStdout, preStderr, teeLog,
                   writeLimit, brokenReal, supVars, clientVars>>

----------------------------------------------------------------------------

Next ==
    \E c \in Callers :
        \/ HandlerEnter(c)
        \/ SetContext(c)
        \/ RestoreContext(c)
        \/ Lock(c)
        \/ PipeStdout(c)
        \/ PipeStderr(c)
        \/ Redirect(c)
        \/ ProgramWrite(c)
        \/ ProgramReturn(c)
        \/ ProgramPanic(c)
        \/ CloseWriters(c)
        \/ Wait(c)
        \/ Restore(c)
        \/ Snapshot(c)
        \/ DeferredRestore(c)
        \/ Unlock(c)
        \/ \E s \in Streams : DrainCopy(c, s) \/ DrainEnd(c, s)

\* One capture at a time.
Spec == Init /\ [][Next]_vars

\* One capture at a time with real streams that may fail.
SpecTee == InitTee /\ [][Next]_vars

\* Captures side by side on different wrapper instances.
SpecMulti == InitMulti /\ [][Next]_vars

\* Calls with contexts of their own, side by side.
SpecContext == InitContext /\ [][Next]_vars

-----------------------------------------------------------------------------
\* The Handler of the demo function, iac/go-demo.

\* The events the Lambda runtime hands to the Handler: an object with the
\* key args, or JSON of another shape.
DemoEvents == {MarshalEvent(<<>>, FALSE), MarshalEvent(<<>>, TRUE), MarshalList(<<>>)}

\* return map[string]any{"stdout": result.Stdout, "error": err.Error()}, nil
DemoMap(r) == [returned |-> TRUE, nonnil |-> TRUE, text |-> r.text, err |-> "nil"]

\* The map literal faults: result.Stdout reads through a nil *OutputCapture,
\* err.Error() calls a method of a nil error.
DemoFaults(r) == ~r.nonnil \/ r.err = "nil"

\* args, err := wrapper.UnmarshalEvent(event); if err != nil { return nil, err };
\* w := wrapper.NewCobraLambdaCLI(ctx, rootCmd), which sets the command's
\* context and reads os.Stdout and os.Stderr; then w.Execute(args.Args).
DemoEnter(c) ==
    /\ pc[c] = "demo"
    /\ \E event \in DemoEvents :
         IF UnmarshalEvent(event).err = "nil"
         THEN /\ originalStdout' = [originalStdout EXCEPT ![inst[c]] = osStdout]
              /\ originalStderr' = [originalStderr EXCEPT ![inst[c]] = osStderr]
              /\ cmdCtx' = InvocationCtx(c)
              /\ pc' = [pc EXCEPT ![c] = "lock"]
              /\ UNCHANGED handlerResult
         ELSE /\ handlerResult' = [handlerResult EXCEPT ![c] = DecodeError]
              /\ pc' = [pc EXCEPT ![c] = "returned"]
              /\ UNCHANGED <<originalStdout, originalStderr, cmdCtx>>
    /\ UNCHANGED <<osStdout, osStderr, kind, inst, mu, pipeEnd, pipeBuf,
                   sharedBuffer, drain, wg, written, execErr, result,
                   preStdout, preStderr, teeLog,
                   writeLimit, brokenReal, supVars, clientVars>>

\* The Handler's return statement, after w.Execute has returned.
DemoReturn(c) ==
    /\ pc[c] = "demoReturn"
    /\ IF DemoFaults(result[c])
       THEN /\ pc' = [pc EXCEPT ![c] = "faulted"]
            /\ UNCHANGED handlerResult
       ELSE /\ pc' = [pc EXCEPT ![c] = "returned"]
            /\ handlerResult' = [handlerResult EXCEPT ![c] = DemoMap(result[c])]
    /\ UNCHANGED <<osStdout, osStderr, kind, inst, originalStdout,
                   originalStderr, mu, cmdCtx, pipeEnd, pipeBuf, sharedBuffer,
                   drain, wg, written, execErr, result, preStdout, preStderr,
                   teeLog, writeLimit, brokenReal, supVars, clientVars>>

\* One invocation of the demo function: caller 1 is the Lambda runtime
\* calling Handler.
InitDemo ==
    /\ InitShared
    /\ writeLimit = MaxWrites
    /\ kind = [c \in Callers |-> IF c = 1 THEN "demo" ELSE "direct"]
    /\ inst = [c \in Callers |-> c]
    /\ pc = [c \in Callers |-> IF c = 1 THEN "demo" ELSE "idle"]

NextDemo ==
    \E c \in Callers :
        \/ DemoEnter(c)
        \/ Lock(c)
        \/ PipeStdout(c)
        \/ PipeStderr(c)
        \/ Redirect(c)
        \/ ProgramWrite(c)
        \/ ProgramReturn(c)
        \/ ProgramPanic(c)
        \/ CloseWriters(c)
        \/ Wait(c)
        \/ Restore(c)
        \/ Snapshot(c)
        \/ DeferredRestore(c)
        \/ Unlock(c)
        \/ DemoReturn(c)
        \/ \E s \in Streams : DrainCopy(c, s) \/ DrainEnd(c, s)

SpecDemo == InitDemo /\ [][NextDemo]_vars

----------------------------------------------------------------------------
\* The supervisor's steps.

\* main returns (or calls os.Exit(0) after the help): exit status 0.
ExitOk(msg) ==
    /\ supPc' = "exited"
    /\ exitCode' = 0
    /\ reported' = msg

\* A connection to the port main dials is accepted: the subprocess listens
\* on the port its environment names, and that is main's port.
Reachable ==
    /\ proc = "running"
    /\ listening
    /\ build = "client" \/ cmd.port = LambdaServerPort

\* The subprocess's server binds the port and starts to accept connections.
ProcListen ==
    /\ supPc # "exited"
    /\ proc = "running"
    /\ ~listening
    /\ listening' = TRUE
    /\ UNCHANGED <<wrapVars, clientVars, request, timeout, probes, waited,
                   cmdVars, supPc, proc, elapsed, conn,
                   response, supLog, reported, printed, exitCode>>

\* The subprocess exits on its own (a crash, or its reaction to SIGTERM).
ProcDie ==
    /\ supPc # "exited"
    /\ proc = "running"
    /\ proc' = "zombie"
    /\ listening' = FALSE
    /\ UNCHANGED <<wrapVars, clientVars, request, timeout, probes, waited,
                   cmdVars, supPc, elapsed, conn, response,
                   supLog, reported, printed, exitCode>>

\* config, err := runner.ParseArgs(flag.Args()); on an error main prints it
\* with the usage and exits 1.  The variants of main read os.Args.
ParseStep ==
    /\ supPc = "parse"
    /\ LET c == ParseOf(build, mode, rawArgs)
       IN /\ config' = c
          /\ IF c.err = "nil"
             THEN /\ supPc' = IF build = "client" THEN "dial" ELSE "create"
                  /\ UNCHANGED <<reported, exitCode>>
             ELSE IF c.err = "help" THEN ExitOk("help") ELSE OsExit("usage")
    /\ UNCHANGED <<wrapVars, clientVars, request, timeout, probes, waited,
                   build, mode, rawArgs, pathExists, cmd,
                   proc, listening, elapsed, conn, response, supLog, printed>>

\* cmd, err := runner.CreateCommand(config); on an error main prints it and
\* exits 1.
CreateStep ==
    /\ supPc = "create"
    /\ LET c == CommandOf(build, mode, config, pathExists)
       IN /\ cmd' = c
          /\ IF c.err = "nil"
             THEN /\ supPc' = "start"
                  /\ UNCHANGED <<reported, exitCode>>
             ELSE OsExit("create")
    /\ UNCHANGED <<wrapVars, clientVars, request, timeout, probes, waited,
                   build, mode, rawArgs, pathExists, config,
                   proc, listening, elapsed, conn, response, supLog, printed>>

\* cmd.Start(); on an error main prints it and exits.  After it the cleanup
\* is deferred.
CmdStart ==
    /\ supPc = "start"
    /\ \E ok \in BOOLEAN :
         IF ok
         THEN /\ proc' = "running"
              /\ supPc' = "waitReady"
              /\ UNCHANGED <<reported, exitCode>>
         ELSE /\ OsExit("start")
              /\ UNCHANGED proc
    /\ UNCHANGED <<wrapVars, clientVars, request, timeout, probes, waited,
                   cmdVars, listening, elapsed, conn,
                   response, supLog, printed>>

\* Mutant of FailedProbeCost: the loop does not sleep after a failed probe
\* that was refused at once.
FailedProbeCostNoSleep == {0, 2}

\* The intervals a failed round of the loop takes: the probe is refused at
\* once or runs into the timeout of net.DialTimeout, two intervals long; then
\* time.Sleep of one interval.
FailedProbeCost == {1, 3}

\* waitForServer, one round of the loop before the deadline: net.DialTimeout
\* connects (conn.Close(); return nil), or it fails and the loop sleeps one
\* interval; a dial that ran into its own timeout has spent two more.
WaitForServerProbe ==
    /\ supPc = "waitReady"
    /\ ~DeadlinePassed(elapsed)
    /\ IF Reachable
       THEN /\ supLog' = Append(supLog, Event("probe", "port", TRUE))
            /\ supPc' = IF ReadinessVerdict(TRUE) = "nil" THEN "dial" ELSE "waitReady"
            /\ UNCHANGED elapsed
            /\ UNCHANGED probes
       ELSE /\ \E d \in FailedProbeCost : elapsed' = elapsed + d
            /\ probes' = probes + 1
            /\ UNCHANGED <<supLog, supPc>>
    /\ UNCHANGED <<wrapVars, clientVars, request, timeout, waited,
                   cmdVars, proc, listening, conn, response,
                   reported, printed, exitCode>>

\* waitForServer, the deadline has passed: return the timeout error; main
\* prints it and calls os.Exit(1).
WaitForServerTimeout ==
    /\ supPc = "waitReady"
    /\ DeadlinePassed(elapsed)
    /\ IF ReadinessVerdict(FALSE) = "nil"
       THEN /\ supPc' = "dial"
            /\ UNCHANGED <<reported, exitCode>>
       ELSE OsExit("timeout")
    /\ UNCHANGED <<wrapVars, clientVars, request, timeout, probes, waited,
                   cmdVars, proc, listening, elapsed, conn,
                   response, supLog, printed>>

\* client, err := rpc.Dial("tcp", "localhost:8001"); on an error os.Exit(1);
\* defer client.Close().  json.Marshal of the event cannot fail.
RpcDial ==
    /\ supPc = "dial"
    /\ IF Reachable
       THEN /\ conn' = "open"
            /\ supLog' = Append(supLog, Event("dial", "port", TRUE))
            /\ supPc' = "invoke"
            /\ UNCHANGED <<reported, exitCode>>
       ELSE /\ OsExit("connect")
            /\ supLog' = Append(supLog, Event("dial", "port", FALSE))
            /\ UNCHANGED conn
    /\ UNCHANGED <<wrapVars, clientVars, request, timeout, probes, waited,
                   cmdVars, proc, listening, elapsed,
                   response, printed>>

\* The slice main puts into the event is nil: ParseArgs leaves LambdaArgs nil
\* when there is no token after the path; the variants of main that read
\* os.Args make a slice of their own.
ArgsNil(b, args) == b \in RunnerBuilds /\ args = <<>>

\* argsEvent := wrapper.CobraLambdaEvent{Args: config.LambdaArgs}; payload, err
\* := json.Marshal(argsEvent), which cannot fail; client.Call("Function.Invoke",
\* args, &invokeResponse) sends the request.
InvokeCall ==
    /\ supPc = "invoke"
    /\ request' = MarshalEvent(config.LambdaArgs, ArgsNil(build, config.LambdaArgs))
    /\ supLog' = Append(supLog, Event("invoke", "conn", TRUE))
    /\ supPc' = "awaitResponse"
    /\ UNCHANGED <<wrapVars, clientVars, timeout, probes, waited,
                   cmdVars, proc, listening, elapsed, conn,
                   response, reported, printed, exitCode>>

\* The deadline the request carries, Deadline: time.Now().Unix() + 10, counted
\* in intervals of waiting for the response.
InvokeDeadline == 2

\* Mutant of AwaitTick: the client gives the call up when the deadline of the
\* request has passed.
AwaitTickAbandons ==
    /\ supPc = "awaitResponse"
    /\ waited <= InvokeDeadline
    /\ waited' = waited + 1
    /\ IF waited' > InvokeDeadline
       THEN OsExit("deadline")
       ELSE UNCHANGED <<supPc, reported, exitCode>>
    /\ UNCHANGED <<wrapVars, clientVars, request, timeout, probes,
                   cmdVars, proc, listening, elapsed, conn,
                   response, supLog, printed>>

\* client.Call blocks on the call's Done channel: an interval goes by without
\* a response, up to and past the deadline of the request, and main stays
\* where it is.
AwaitTick ==
    /\ supPc = "awaitResponse"
    /\ waited <= InvokeDeadline
    /\ waited' = waited + 1
    /\ UNCHANGED <<wrapVars, clientVars, request, timeout, probes,
                   cmdVars, proc, listening, elapsed, conn,
                   response, supLog, supPc, reported, printed, exitCode>>

\* Mutant of AfterResponse: the response's Error field is not looked at.
AfterResponseUnchecked(b) == "unmarshal"

\* Where main goes with the response: to the check of its Error field; the
\* client-only variant has no such check.
AfterResponse(b) == IF b = "client" THEN "unmarshal" ELSE "checkError"

\* Mutant of InvokeReturn: the call is not waited for (client.Go in place of
\* client.Call), main goes on without a response.
InvokeReturnNotAwaited ==
    /\ supPc = "awaitResponse"
    /\ supPc' = "sigterm"
    /\ UNCHANGED <<wrapVars, clientVars, request, timeout, probes, waited,
                   cmdVars, proc, listening, elapsed, conn,
                   response, supLog, reported, printed, exitCode>>

\* client.Call returns: the server answered (a payload that decodes, a
\* payload that does not, or a response with the Error field set and no
\* payload), or the call failed because the connection broke.
InvokeReturn ==
    /\ supPc = "awaitResponse"
    /\ \/ /\ proc = "running" /\ listening
          /\ \E r \in {"payload", "badPayload", "remoteError"} : response' = r
          /\ supPc' = AfterResponse(build)
          /\ UNCHANGED <<reported, exitCode>>
       \/ /\ ~(proc = "running" /\ listening)
          /\ OsExit("invoke")
          /\ UNCHANGED response
    /\ UNCHANGED <<wrapVars, clientVars, request, timeout, probes, waited,
                   cmdVars, proc, listening, elapsed, conn,
                   supLog, printed>>

\* if invokeResponse.Error != nil { ...; os.Exit(1) }
CheckResponseError ==
    /\ supPc = "checkError"
    /\ IF response = "remoteError"
       THEN OsExit("remote")
       ELSE /\ supPc' = "unmarshal"
            /\ UNCHANGED <<reported, exitCode>>
    /\ UNCHANGED <<wrapVars, clientVars, request, timeout, probes, waited,
                   cmdVars, proc, listening, elapsed, conn,
                   response, supLog, printed>>

\* json.Unmarshal(invokeResponse.Payload, &output) fails on a payload that
\* is not the JSON of the output, and on the empty payload of an error
\* response.
UnmarshalFails(r) == r \in {"badPayload", "remoteError"}

\* json.Unmarshal(invokeResponse.Payload, &output); on an error os.Exit(1);
\* fmt.Print(output.Stdout).  The client-only variant of main ends here.
UnmarshalResponse ==
    /\ supPc = "unmarshal"
    /\ IF UnmarshalFails(response)
       THEN /\ OsExit("decode")
            /\ UNCHANGED printed
       ELSE /\ printed' = TRUE
            /\ IF build = "client"
               THEN ExitOk(reported)
               ELSE /\ supPc' = "sigterm"
                    /\ UNCHANGED <<reported, exitCode>>
    /\ UNCHANGED <<wrapVars, clientVars, request, timeout, probes, waited,
                   cmdVars, proc, listening, elapsed, conn,
                   response, supLog>>

\* runner.KillProcessGroup(cmd, syscall.SIGTERM); an error is printed and
\* main goes on; time.Sleep(500 * time.Millisecond).  The variant of main
\* calls cmd.Process.Signal(syscall.SIGKILL) here.
SendSigterm ==
    /\ supPc = "sigterm"
    /\ \E ok \in SignalOutcomes(build, proc) :
         LET sig == GracefulSignal(build)
             to == SignalTarget(build)
             after == AfterSignal(proc, sig, ok)
         IN /\ supLog' = Append(supLog, Event(sig, to, ok))
            /\ proc' = after
            /\ listening' = IF after = "running" THEN listening ELSE FALSE
            /\ supPc' = IF ReachesSupervisor(cmd, to, ok) THEN "killed" ELSE "ping"
    /\ UNCHANGED <<wrapVars, clientVars, request, timeout, probes, waited,
                   cmdVars, elapsed, conn, response,
                   reported, printed, exitCode>>

\* Mutant of Ping: a ping that fails ends main with os.Exit(1).
PingEscalates ==
    /\ supPc = "ping"
    /\ supLog' = Append(supLog, Event("ping", "conn", proc = "running" /\ listening))
    /\ IF proc = "running" /\ listening
       THEN /\ supPc' = "closeClient"
            /\ UNCHANGED <<reported, exitCode>>
       ELSE OsExit("ping")
    /\ UNCHANGED <<wrapVars, clientVars, request, timeout, probes, waited,
                   cmdVars, proc, listening, elapsed, conn,
                   response, printed>>

\* client.Call("Function.Ping", ...): either outcome is only logged.
Ping ==
    /\ supPc = "ping"
    /\ supLog' = Append(supLog, Event("ping", "conn", proc = "running" /\ listening))
    /\ supPc' = "closeClient"
    /\ UNCHANGED <<wrapVars, clientVars, request, timeout, probes, waited,
                   cmdVars, proc, listening, elapsed, conn,
                   response, reported, printed, exitCode>>

\* main returns; the deferred client.Close() runs first.
ClientClose ==
    /\ supPc = "closeClient"
    /\ conn' = "closed"
    /\ supLog' = Append(supLog, Event("close", "conn", TRUE))
    /\ supPc' = "cleanupKill"
    /\ UNCHANGED <<wrapVars, clientVars, request, timeout, probes, waited,
                   cmdVars, proc, listening, elapsed,
                   response, reported, printed, exitCode>>

\* The deferred cleanup: cmd.Process != nil after a successful Start;
\* _ = runner.KillProcessGroup(cmd, syscall.SIGKILL).  The variant of main
\* calls cmd.Process.Kill().
CleanupKill ==
    /\ supPc = "cleanupKill"
    /\ \E ok \in SignalOutcomes(build, proc) :
         LET to == SignalTarget(build)
             after == AfterSignal(proc, "SIGKILL", ok)
         IN /\ supLog' = Append(supLog, Event("SIGKILL", to, ok))
            /\ proc' = after
            /\ listening' = IF after = "running" THEN listening ELSE FALSE
            /\ supPc' = IF ReachesSupervisor(cmd, to, ok) THEN "killed" ELSE "cleanupWait"
    /\ UNCHANGED <<wrapVars, clientVars, request, timeout, probes, waited,
                   cmdVars, elapsed, conn, response,
                   reported, printed, exitCode>>

\* _ = cmd.Wait() returns when the subprocess has exited; main's return ends
\* the supervisor.
CleanupWait ==
    /\ supPc = "cleanupWait"
    /\ proc = "zombie"
    /\ proc' = "reaped"
    /\ supLog' = Append(supLog, Event("wait", "pid", TRUE))
    /\ supPc' = "exited"
    /\ exitCode' = MainReturnCode(supLog[Len(supLog)].ok)
    /\ UNCHANGED <<wrapVars, clientVars, request, timeout, probes, waited,
                   cmdVars, listening, elapsed, conn,
                   response, reported, printed>>

\* The input of one run of the supervisor with the cli package: the
\* --go-run flag and the arguments left after the flags.
InitSup ==
    /\ InitWrapper
    /\ brokenReal = {}
    /\ InitClient
    /\ InitMain
    /\ timeout = ReadyWindow
    /\ writeLimit = MaxWrites
    /\ kind = [c \in Callers |-> "direct"]
    /\ inst = [c \in Callers |-> c]
    /\ pc = [c \in Callers |-> "idle"]
    /\ build \in RunnerBuilds
    /\ mode \in {"Binary", "GoRun"}
    /\ rawArgs \in ArgLists(MaxArgs)
    /\ pathExists \in BOOLEAN
    /\ proc = "none"

\* The input of one run of any variant of main.  The client-only variant
\* does not start the server: it may run or not when main begins.
InitSupAll ==
    /\ InitWrapper
    /\ brokenReal = {}
    /\ InitClient
    /\ InitMain
    /\ timeout = ReadyWindow
    /\ writeLimit = MaxWrites
    /\ kind = [c \in Callers |-> "direct"]
    /\ inst = [c \in Callers |-> c]
    /\ pc = [c \in Callers |-> "idle"]
    /\ rawArgs \in ArgLists(MaxArgs)
    /\ pathExists \in BOOLEAN
    /\ \/ build \in RunnerBuilds /\ mode \in {"Binary", "GoRun"} /\ proc = "none"
       \/ build = "plain" /\ mode = "GoRun" /\ proc = "none"
       \/ build = "client" /\ mode = "Binary" /\ proc \in {"none", "running"}

NextSup ==
    \/ ProcListen
    \/ ProcDie
    \/ ParseStep
    \/ CreateStep
    \/ CmdStart
    \/ WaitForServerProbe
    \/ WaitForServerTimeout
    \/ RpcDial
    \/ InvokeCall
    \/ AwaitTick
    \/ InvokeReturn
    \/ CheckResponseError
    \/ UnmarshalResponse
    \/ SendSigterm
    \/ Ping
    \/ ClientClose
    \/ CleanupKill
    \/ CleanupWait

\* One run of the supervisor built with the cli package.
SpecSup == InitSup /\ [][NextSup]_vars

\* One run of any variant of the supervisor.
SpecSupAll == InitSupAll /\ [][NextSup]_vars

\* One run of the supervisor on a binary that exists, with one argument.
InitSupFair ==
    /\ InitSup
    /\ build = "runner"
    /\ mode = "Binary"
    /\ rawArgs = <<TokBinary, TokArg>>
    /\ pathExists

\* waitForServer called with any timeout: one run of the supervisor on a
\* binary that exists, with a main whose timeout is negative, zero or the
\* readiness window.
InitWait ==
    /\ InitWrapper
    /\ brokenReal = {}
    /\ InitClient
    /\ InitMain
    /\ writeLimit = MaxWrites
    /\ kind = [c \in Callers |-> "direct"]
    /\ inst = [c \in Callers |-> c]
    /\ pc = [c \in Callers |-> "idle"]
    /\ build = "runner"
    /\ mode = "Binary"
    /\ rawArgs \in {<<TokBinary>>, <<TokBinary, TokArg>>}
    /\ pathExists = TRUE
    /\ proc = "none"
    /\ timeout \in -1..ReadyWindow

SpecWait == InitWait /\ [][NextSup]_vars

\* The scheduler lets waitForServer's loop run.
SpecSupFair ==
    /\ InitSupFair
    /\ [][NextSup]_vars
    /\ WF_vars(WaitForServerProbe)
    /\ WF_vars(WaitForServerTimeout)

----------------------------------------------------------------------------
\* The remote CLI client's steps.

\* os.Exit(code)
ClExit(code) ==
    /\ clPc' = "exited"
    /\ clExit' = code

\* if len(os.Args[1:]) == 0 { fmt.Println(HelpMessage); os.Exit(2) }
ClCheckArgs ==
    /\ clPc = "checkArgs"
    /\ IF Len(clArgs) = 0
       THEN ClExit(2)
       ELSE /\ clPc' = "newClient"
            /\ UNCHANGED clExit
    /\ UNCHANGED <<wrapVars, supVars, clBuild, clSent, clArgs, clParsed, clPayload>>

\* client, err := lambda.NewDefaultClient(ctx); on an error os.Exit(1)
ClNewClient ==
    /\ clPc = "newClient"
    /\ \E ok \in BOOLEAN :
         IF ok
         THEN /\ clPc' = "parse"
              /\ UNCHANGED clExit
         ELSE ClExit(1)
    /\ UNCHANGED <<wrapVars, supVars, clBuild, clSent, clArgs, clParsed, clPayload>>

\* funcName, ok, err := parseFuncName(os.Args[1:]); the help error prints the
\* help and exits 0; !ok prints err and exits 1.
ClParse ==
    /\ clPc = "parse"
    /\ LET r == parseFuncName(clArgs)
       IN /\ clParsed' = r
          /\ IF r.err = "help" THEN ClExit(0)
             ELSE IF ~r.ok THEN ClExit(1)
             ELSE /\ clPc' = "invoke"
                  /\ UNCHANGED clExit
    /\ UNCHANGED <<wrapVars, supVars, clBuild, clSent, clArgs, clPayload>>

\* The JSON of the Payload the copy of main gives to InvokeSync:
\* wrapper.CobraLambdaEvent{Args: os.Args[3:]} in cmd/clctl, the slice
\* os.Args[3:] itself in the main of the repository's root.
ClientPayload(b, args) ==
    IF b = "root" THEN MarshalList(args) ELSE MarshalEvent(args, FALSE)

\* lambda.InvokeSync(..., Payload: CobraLambdaEvent{Args: os.Args[3:]}): the
\* slice expression panics when os.Args has fewer than three elements; the
\* runtime then ends the process with status 2.
ClInvokeSync ==
    /\ clPc = "invoke"
    /\ IF Len(clArgs) < ForwardedFrom
       THEN /\ clPc' = "panicked"
            /\ clExit' = 2
            /\ UNCHANGED <<clPayload, clSent>>
       ELSE /\ clPayload' = SliceFrom(clArgs, ForwardedFrom)
            /\ clSent' = ClientPayload(clBuild, SliceFrom(clArgs, ForwardedFrom))
            /\ clPc' = "awaitInvoke"
            /\ UNCHANGED clExit
    /\ UNCHANGED <<wrapVars, supVars, clBuild, clArgs, clParsed>>

\* InvokeSync returns: an error is printed and the client exits 1, else
\* fmt.Print(output.Stdout) and main returns.
ClInvokeReturn ==
    /\ clPc = "awaitInvoke"
    /\ \E ok \in BOOLEAN : ClExit(IF ok THEN 0 ELSE 1)
    /\ UNCHANGED <<wrapVars, supVars, clBuild, clSent, clArgs, clParsed, clPayload>>

\* One run of the remote CLI client on a command line.
InitClientRun ==
    /\ InitWrapper
    /\ brokenReal = {}
    /\ InitSupervisor
    /\ writeLimit = MaxWrites
    /\ kind = [c \in Callers |-> "direct"]
    /\ inst = [c \in Callers |-> c]
    /\ pc = [c \in Callers |-> "idle"]
    /\ clArgs \in ClArgLists(MaxClArgs)
    /\ clPc = "checkArgs"
    /\ clParsed = NoParse
    /\ clPayload = <<>>
    /\ clExit = -1
    /\ clBuild \in {"clctl", "root"}
    /\ clSent = NoDoc

NextClient ==
    \/ ClCheckArgs
    \/ ClNewClient
    \/ ClParse
    \/ ClInvokeSync
    \/ ClInvokeReturn

SpecClient == InitClientRun /\ [][NextClient]_vars

----------------------------------------------------------------------------
\* Properties.

\* Caller c is inside Execute's capture window: the globals were swapped by
\* its call and not yet restored by it.
InWindow(c) ==
    \/ pc[c] \in {"run", "closeWriters", "wait", "restore"}
    \/ pc[c] = "deferRestore" /\ execErr[c] = "panic"

\* Caller c is inside Execute: past w.mu.Lock() and not yet out.
InExecute(c) ==
    pc[c] \in {"pipeStdout", "pipeStderr", "redirect", "run", "closeWriters",
               "wait", "restore", "snapshot", "deferRestore", "unlock"}

\* The tokens of text, as a set.
TokensOf(text) == {text[i] : i \in 1..Len(text)}

\* The tokens the program of call c has written.
WrittenTokens(c) == {<<c, k>> : k \in 1..Len(written[c])}

\* C1: two calls on the same wrapper instance are never inside their capture
\* windows (globals swapped, not yet restored) at the same time.
C1_WindowsExclusive ==
    \A c \in Callers : \A d \in Callers :
        (c # d /\ inst[c] = inst[d]) => ~(InWindow(c) /\ InWindow(d))

\* One call is inside its window while another call on the instance waits
\* for the mutex.
C1_Witness ==
    \E c \in Callers : \E d \in Callers :
        /\ c # d
        /\ inst[c] = inst[d]
        /\ InWindow(c)
        /\ written[c] # <<>>
        /\ pc[d] = "lock"

\* C2: the text a call returns holds only tokens written by that call's own
\* program run, for calls on the same wrapper instance.
C2_OwnOutputOnly ==
    \A c \in Callers :
        result[c].nonnil => \A tok \in TokensOf(result[c].text) : tok[1] = c

\* Two calls on one instance have both returned text that is not empty.
C2_Witness ==
    \E c \in Callers : \E d \in Callers :
        /\ c # d
        /\ inst[c] = inst[d]
        /\ pc[c] = "returned" /\ result[c].nonnil /\ result[c].text # <<>>
        /\ pc[d] = "returned" /\ result[d].nonnil /\ result[d].text # <<>>

\* C3: the text Execute returns holds every token the program wrote during
\* the call exactly once.
C3_EveryByteOnce ==
    \A c \in Callers :
        result[c].nonnil =>
            /\ Len(result[c].text) = Len(written[c])
            /\ TokensOf(result[c].text) = WrittenTokens(c)

\* A call returned after its program wrote to both streams.
C3_Witness ==
    \E c \in Callers :
        /\ pc[c] = "returned"
        /\ result[c].nonnil
        /\ Len(written[c]) = MaxWrites
        /\ \E i \in 1..Len(written[c]) : written[c][i] = "out"
        /\ \E i \in 1..Len(written[c]) : written[c][i] = "err"

\* C4: when Execute reads the buffer, and from then on, both write ends are
\* closed and both drain goroutines have finished.
C4_SnapshotAfterDrains ==
    \A c \in Callers :
        (pc[c] = "snapshot" \/ result[c].nonnil) =>
            \A s \in Streams : drain[c][s] = "done" /\ pipeEnd[c][s].w = "closed"

\* Execute is about to read the buffer of a call whose program wrote to
\* both streams.
C4_Witness ==
    \E c \in Callers :
        /\ pc[c] = "snapshot"
        /\ \E i \in 1..Len(written[c]) : written[c][i] = "out"
        /\ \E i \in 1..Len(written[c]) : written[c][i] = "err"

\* C5: when a panic of the program leaves Execute, os.Stdout and os.Stderr
\* are the wrapper's original handles.
C5_PanicRestores ==
    [][\A c \in Callers :
          (pc[c] # "panicked" /\ pc'[c] = "panicked") =>
              /\ osStdout' = originalStdout[inst[c]]
              /\ osStderr' = originalStderr[inst[c]]]_vars

\* A panic has left Execute after the program wrote, and the globals are the
\* real streams.
C5_Witness ==
    \E c \in Callers :
        /\ pc[c] = "panicked"
        /\ written[c] # <<>>
        /\ osStdout = RealHandle("out")
        /\ osStderr = RealHandle("err")

\* C6: the handles Execute leaves in os.Stdout and os.Stderr when it returns
\* are the handles they held when the call began.
C6_PreCallStateRestored ==
    [][\A c \in Callers :
          (pc[c] = "deferRestore" /\ execErr[c] # "panic" /\ pc'[c] = "unlock") =>
              /\ osStdout' = preStdout[c]
              /\ osStderr' = preStderr[c]]_vars

\* C7: when the program returns an error, Execute returns a capture that is
\* not nil and holds every token written before the error, with the
\* program's error; the handler returns the same capture and error.
C7_OutputKeptOnError ==
    \A c \in Callers :
        /\ (result[c].returned /\ execErr[c] = "failed") =>
              /\ result[c].nonnil
              /\ result[c].err = "failed"
              /\ WrittenTokens(c) \subseteq TokensOf(result[c].text)
        /\ (kind[c] = "handler" /\ pc[c] = "returned" /\ execErr[c] = "failed") =>
              /\ handlerResult[c].nonnil
              /\ handlerResult[c].err = "failed"
              /\ WrittenTokens(c) \subseteq TokensOf(handlerResult[c].text)

\* A handler invocation has returned after its program wrote and failed.
C7_Witness ==
    \E c \in Callers :
        /\ kind[c] = "handler"
        /\ pc[c] = "returned"
        /\ execErr[c] = "failed"
        /\ written[c] # <<>>
        /\ handlerResult[c].text # <<>>

\* C8: the returned text holds the program's writes in the order the
\* program made them, across both streams.
C8_WriteOrderKept ==
    \A c \in Callers :
        result[c].nonnil =>
            \A i \in 1..Len(result[c].text) : \A j \in 1..Len(result[c].text) :
                i < j => result[c].text[i][2] < result[c].text[j][2]

\* C9: a call that has left Execute in any way (return after a pipe failure,
\* normal return, program error, panic) does not hold the mutex, and the
\* mutex of an instance is free whenever no call on the instance is inside
\* Execute, so a later call takes it without waiting.
C9_MutexReleased ==
    /\ \A c \in Callers : ~InExecute(c) => mu[inst[c]] # c
    /\ \A w \in Wrappers :
         (\A c \in Callers : inst[c] = w => ~InExecute(c)) => mu[w] = 0

\* After a panic left one call, a later call on the same instance holds the
\* mutex and is inside its window.
C9_Witness ==
    \E c \in Callers : \E d \in Callers :
        /\ c # d
        /\ inst[c] = inst[d]
        /\ pc[c] = "panicked"
        /\ mu[inst[d]] = d
        /\ InWindow(d)

C11_PipeFailureAborts ==
    \A c \in Callers :
        result[c].err = "pipe" =>
            /\ ~result[c].nonnil
            /\ written[c] = <<>> /\ execErr[c] = "none"
            /\ wg[c] = 0
            /\ \A s \in Streams :
                 /\ drain[c][s] = "none"
                 /\ pipeEnd[c][s].r # "open" /\ pipeEnd[c][s].w # "open"
            /\ pc[c] = "unlock" => (osStdout = preStdout[c] /\ osStderr = preStderr[c])
            /\ pc[c] # "unlock" => mu[inst[c]] # c

\* A call returned the error of the second os.Pipe, after which another call
\* on the instance took the mutex and is inside its window.
C11_Witness ==
    \E c \in Callers : \E d \in Callers :
        /\ c # d /\ inst[c] = inst[d]
        /\ pc[c] = "returned"
        /\ result[c].err = "pipe"
        /\ pipeEnd[c]["out"] = ClosedPipe
        /\ InWindow(d)

\* C12: when the event cannot be decoded the handler returns the decode
\* error with a nil result, the program is never run, and the globals are
\* never redirected.
C12_DecodeErrorAborts ==
    \A c \in Callers :
        handlerResult[c].err = "decode" =>
            /\ ~handlerResult[c].nonnil
            /\ pc[c] = "returned"
            /\ ~result[c].returned
            /\ written[c] = <<>> /\ execErr[c] = "none"
            /\ \A s \in Streams : pipeEnd[c][s] = NoPipe /\ drain[c][s] = "none"
            /\ mu[inst[c]] # c
            /\ osStdout = RealHandle("out") /\ osStderr = RealHandle("err")

\* A handler invocation has returned the decode error.
C12_Witness ==
    \E c \in Callers :
        /\ kind[c] = "handler"
        /\ pc[c] = "returned"
        /\ handlerResult[c] = DecodeError

\* C13: while the program of an ExecuteContext call or of a handler
\* invocation runs, the command's context is the context of that call, also
\* when several such calls are made side by side.
C13_ProgramSeesOwnContext ==
    \A c \in Callers :
        (kind[c] \in {"handler", "context"} /\ pc[c] = "run") =>
            cmdCtx = InvocationCtx(c)

\* C14: the step that ends an ExecuteContext call leaves the command's context
\* at the wrapper's default, and it does not replace the override of another
\* call whose program is still running.
C14_ContextRestoredNotClobbered ==
    [][\A c \in Callers :
          (pc[c] = "restoreContext" /\ pc'[c] = "returned") =>
              /\ cmdCtx' = WrapperCtx(c)
              /\ \A d \in Callers \ {c} :
                   (pc[d] = "run" /\ cmdCtx = InvocationCtx(d)) =>
                       cmdCtx' = InvocationCtx(d)]_vars

\* C15: no two calls, on whatever wrapper instances, are inside their capture
\* windows at the same time.
C15_OneWindowProcessWide ==
    \A c \in Callers : \A d \in Callers :
        c # d => ~(InWindow(c) /\ InWindow(d))

\* C16: two Execute calls on different wrapper instances made by
\* NewCobraLambdaCLI each return exactly the tokens of their own program, and
\* once both have returned the globals are the original handles.
C16_InstancesIndependent ==
    \A c \in Callers : \A d \in Callers :
        (c # d /\ inst[c] # inst[d] /\ kind[c] = "direct" /\ kind[d] = "direct") =>
            /\ result[c].nonnil =>
                 /\ Len(result[c].text) = Len(written[c])
                 /\ TokensOf(result[c].text) = WrittenTokens(c)
            /\ (pc[c] = "returned" /\ pc[d] = "returned") =>
                 /\ osStdout = RealHandle("out")
                 /\ osStderr = RealHandle("err")

\* C17: every dial of the RPC connection and every invoke comes after a
\* readiness probe of the port that succeeded.
C17_DialAfterReady ==
    /\ \A i \in Logged("dial") \cup Logged("invoke") :
         \E j \in Logged("probe") : j < i /\ supLog[j].ok
    /\ conn # "none" => Logged("probe") # {}

\* The supervisor has sent the invoke over an open connection.
C17_Witness ==
    /\ conn = "open"
    /\ Logged("invoke") # {}
    /\ supPc = "awaitResponse"

\* C18: when the supervisor has exited after a readiness timeout, it has
\* reported the timeout, sent SIGKILL to the subprocess's process group and
\* waited for the subprocess, which is no longer running.
C18_TimeoutKillsSubprocess ==
    (supPc = "exited" /\ reported = "timeout") =>
        /\ exitCode = 1
        /\ \E i \in Logged("SIGKILL") : supLog[i].to = "group"
        /\ Logged("wait") # {}
        /\ proc # "running"

\* C19: when the supervisor has exited after a failure that came after the
\* subprocess was started (connect, invoke call, remote error, undecodable
\* response), it has sent SIGKILL to the subprocess's process group.
C19_FailureKillsGroup ==
    (supPc = "exited" /\ reported \in {"connect", "invoke", "remote", "decode"}) =>
        \E i \in Logged("SIGKILL") : supLog[i].to = "group"

\* C20: a run whose invocation succeeded ends with exit status 0 after the
\* graceful signal, the ping, a SIGKILL addressed to the process group and a
\* wait for the subprocess, in that order, whether or not the signals
\* returned an error; the subprocess is then reaped.
C20_CleanupAfterSuccess ==
    (supPc = "exited" /\ printed) =>
        /\ exitCode = 0
        /\ proc = "reaped"
        /\ \E t \in Logged("SIGTERM") : \E p \in Logged("ping") :
           \E k \in Logged("SIGKILL") : \E w \in Logged("wait") :
               /\ t < p /\ p < k /\ k < w
               /\ supLog[k].to = "group"
               /\ w = Len(supLog)

\* A successful run has ended after the subprocess had exited on its own and
\* the cleanup's SIGKILL returned an error.
C20_Witness ==
    /\ supPc = "exited"
    /\ printed
    /\ \E k \in Logged("SIGKILL") : ~supLog[k].ok

\* The place of an event in main: probe, dial, invoke, graceful signal, ping,
\* close of the client, kill of the cleanup, wait of the cleanup.
LifecycleRank(ev) ==
    CASE ev = "probe" -> 1
      [] ev = "dial" -> 2
      [] ev = "invoke" -> 3
      [] ev = "SIGTERM" -> 4
      [] ev = "ping" -> 5
      [] ev = "close" -> 6
      [] ev = "SIGKILL" -> 7
      [] ev = "wait" -> 8

\* C21: what the supervisor does to the subprocess comes in the order of the
\* lifecycle (readiness probe, dial, invoke, graceful signal, ping, close,
\* kill, wait), each at most once; the graceful signal is sent only after
\* the invoke was sent and its response, a result, has arrived; the
\* subprocess takes part in none of it before it was started; and after the
\* cleanup has waited for the subprocess nothing more is done to it.
C21_LifecycleInOrder ==
    /\ \A i, j \in 1..Len(supLog) :
         i < j => LifecycleRank(supLog[i].ev) < LifecycleRank(supLog[j].ev)
    /\ Logged("SIGTERM") # {} =>
         /\ Logged("invoke") # {}
         /\ response = "payload"
         /\ printed
    /\ supLog # <<>> => proc # "none"
    /\ \A i \in Logged("wait") : i = Len(supLog)
    /\ proc = "reaped" => supPc = "exited" /\ Logged("wait") # {}

\* The supervisor has gone through the whole lifecycle: the subprocess was
\* probed, invoked, signalled, killed and waited for.
C21_Witness ==
    /\ proc = "reaped"
    /\ Len(supLog) = 8

\* C22: every signal the supervisor sends to the subprocess, the graceful
\* one and the kill of the cleanup, is addressed to the subprocess's process
\* group, never to its process id alone; no signal is reported as sent to a
\* subprocess that was never started.
C22_SignalsToGroup ==
    \A i \in 1..Len(supLog) :
        supLog[i].ev \in {"SIGTERM", "SIGKILL"} =>
            /\ supLog[i].to = "group"
            /\ proc # "none"

\* C23: a command that CreateCommand built has Setpgid set and carries
\* _LAMBDA_SERVER_PORT with the runner's port, and the path exists; when
\* the path does not exist there is no command, the error is reported and no
\* subprocess is started; and no signal sent to the subprocess's group
\* reaches the supervisor.
C23_CommandInOwnGroup ==
    /\ cmd.err = "nil" =>
         /\ cmd.Setpgid
         /\ cmd.port = LambdaServerPort
         /\ pathExists
    /\ (config.err = "nil" /\ supPc # "create" /\ ~pathExists) =>
         /\ cmd = CommandError
         /\ reported = "create"
         /\ proc = "none"
    /\ supPc # "killed"

\* The kill of the cleanup was delivered to the subprocess's group and the
\* supervisor goes on to wait for the subprocess.
C23_Witness ==
    /\ supPc = "cleanupWait"
    /\ cmd.Setpgid
    /\ \E i \in Logged("SIGKILL") : supLog[i].ok /\ supLog[i].to = "group"

\* C24: ParseArgs in Binary mode returns the missing-path error and no
\* config for an empty argument list; for any other list the path is the
\* first token and the forwarded arguments are all the tokens after it, in
\* their order.
C24_ParseArgsBinary ==
    (mode = "Binary" /\ supPc # "parse") =>
        IF rawArgs = <<>>
        THEN /\ config.err = "missing"
             /\ config.LambdaPath = <<>>
             /\ config.LambdaArgs = <<>>
        ELSE /\ config.err = "nil"
             /\ config.LambdaPath = Head(rawArgs)
             /\ config.LambdaArgs = Tail(rawArgs)

\* ParseArgs has parsed a Binary command line with two different arguments
\* to forward.
C24_Witness ==
    /\ mode = "Binary"
    /\ config.err = "nil"
    /\ Len(config.LambdaArgs) = 2
    /\ config.LambdaArgs[1] # config.LambdaArgs[2]

\* C25: ParseArgs in go-run mode returns the missing-path error for an empty
\* argument list, rejects a first token that does not end in ".go", and
\* otherwise takes the first token as the path and all the tokens after it,
\* in their order, as the forwarded arguments, none when only the path is
\* given.
C25_ParseArgsGoRun ==
    (mode = "GoRun" /\ supPc # "parse") =>
        IF rawArgs = <<>>
        THEN config.err = "missing"
        ELSE IF ~HasSuffixGo(Head(rawArgs))
        THEN config.err \notin {"nil", "unset"}
        ELSE /\ config.err = "nil"
             /\ config.LambdaPath = Head(rawArgs)
             /\ config.LambdaArgs = Tail(rawArgs)

\* C26: waitForServer always returns, whether or not anything ever listens
\* on the port, and when the supervisor reports the timeout the whole
\* readiness window has elapsed.
C26_WaitForServerEnds ==
    /\ [](reported = "timeout" => elapsed >= ReadyWindow /\ ReadyWindow > 0)
    /\ (supPc = "waitReady" ~> supPc # "waitReady")

\* waitForServer returned the timeout error: no probe ever connected.
C26_Witness ==
    /\ supPc = "exited"
    /\ reported = "timeout"
    /\ Logged("probe") = {}
    /\ elapsed >= ReadyWindow

\* C27: a failure to connect or to make the call is reported as such and
\* only when no response has arrived; a response with the Error field set is
\* never reported as a connect or call failure and never ends in printed
\* output or exit status 0; a main that checks the Error field reports it as
\* the remote error.
C27_RemoteErrorDistinct ==
    /\ reported \in {"connect", "invoke"} => response = "none"
    /\ reported = "remote" => response = "remoteError"
    /\ (supPc = "exited" /\ response = "remoteError") =>
         /\ exitCode = 1
         /\ ~printed
         /\ reported \notin {"connect", "invoke", "none"}
         /\ build # "client" => reported = "remote"

\* The supervisor has exited on a response that carried the remote error.
C27_Witness ==
    /\ supPc = "exited"
    /\ response = "remoteError"
    /\ reported = "remote"

\* C28: when the supervisor has exited on a response that carries the remote
\* error, that is, the target program ran and failed, it has printed the
\* output the program wrote before the failure.
C28_OutputWithRemoteError ==
    (supPc = "exited" /\ response = "remoteError") => printed

\* C29: the step that pings after the graceful signal leaves the exit
\* status, the printed output and the reported error as they were and leads
\* to the close of the client, whatever the ping returned; and a run that
\* has pinged ends with exit status 0 after the cleanup's kill and wait.
C29_PingOnlyObserved ==
    /\ [][supPc = "ping" =>
            /\ supPc' \in {"ping", "closeClient"}
            /\ exitCode' = exitCode
            /\ printed' = printed
            /\ reported' = reported]_vars
    /\ []((supPc = "exited" /\ Logged("ping") # {}) =>
            /\ exitCode = 0
            /\ printed
            /\ \E p \in Logged("ping") : \E k \in Logged("SIGKILL") :
               \E w \in Logged("wait") : p < k /\ k < w)

\* A run whose ping failed has ended with exit status 0.
C29_Witness ==
    /\ supPc = "exited"
    /\ exitCode = 0
    /\ \E p \in Logged("ping") : ~supLog[p].ok

\* The tokens after the function name: after the flag when the name is
\* written inline after "=", else after the flag and the name.
ArgsAfterName(args) ==
    IF \E i \in 1..Len(args[1]) : args[1][i] = "="
    THEN Tail(args)
    ELSE Tail(Tail(args))

\* C30: for every command line parseFuncName accepts, with the name as the
\* next token or inline after "=", the client does not fault, and the
\* arguments of the event it sends are the tokens that follow the function
\* name, all of them, in their order.
C30_ForwardsTokensAfterName ==
    clParsed.ok =>
        /\ clPc # "panicked"
        /\ clPc \in {"awaitInvoke", "exited"} => clPayload = ArgsAfterName(clArgs)

\* C31: the payload the remote CLI client has sent is the object with the
\* key "args", and UnmarshalEvent decodes it without an error to the tokens
\* the client forwarded, in their order.
C31_EnvelopeRoundTrip ==
    clSent # NoDoc =>
        /\ clSent.t = "object"
        /\ clSent.key = "args"
        /\ UnmarshalEvent(clSent).err = "nil"
        /\ UnmarshalEvent(clSent).Args = clPayload

\* The writes of call c that went to stream s, as positions in written[c].
WritesTo(c, s) == {k \in 1..Len(written[c]) : written[c][k] = s}

\* The tokens of text, in its order, keep the order in which the program of
\* call c wrote them to each stream.
StreamOrderKept(c, text) ==
    \A i \in 1..Len(text) : \A j \in 1..Len(text) :
        (i < j /\ written[c][text[i][2]] = written[c][text[j][2]]) =>
            text[i][2] < text[j][2]

\* C32: at every moment the sink of a call holds no write twice, holds the
\* writes of each stream in the order the program made them, and holds of
\* each stream a prefix of its writes, so none is skipped; the text Execute
\* returns keeps that order and has as many tokens as the program wrote.
C32_StreamOrderKept ==
    \A c \in Callers :
        /\ \A i \in 1..Len(sharedBuffer[c]) : \A j \in 1..Len(sharedBuffer[c]) :
               i # j => sharedBuffer[c][i] # sharedBuffer[c][j]
        /\ StreamOrderKept(c, sharedBuffer[c])
        /\ \A s \in Streams : \A k \in WritesTo(c, s) : \A l \in WritesTo(c, s) :
               (l < k /\ <<c, k>> \in TokensOf(sharedBuffer[c])) =>
                   <<c, l>> \in TokensOf(sharedBuffer[c])
        /\ result[c].nonnil =>
               /\ StreamOrderKept(c, result[c].text)
               /\ Len(result[c].text) = Len(written[c])

\* A call returned after its program wrote twice to the same stream.
C32_Witness ==
    \E c \in Callers :
        /\ pc[c] = "returned"
        /\ result[c].nonnil
        /\ Len(result[c].text) >= 2
        /\ written[c][1] = written[c][2]

\* waitForServer has returned nil: main is past it and did not report the
\* timeout.
WaitReturnedNil ==
    \/ supPc \in {"dial", "invoke", "awaitResponse", "checkError", "unmarshal",
                  "sigterm", "ping", "closeClient", "cleanupKill", "cleanupWait"}
    \/ supPc = "exited" /\ reported \notin {"usage", "create", "start", "timeout"}

\* C33: waitForServer has returned nil exactly when a probe has connected;
\* after the first probe that connected it makes no other; every failed
\* probe is followed by the sleep of one polling interval, so the failed
\* probes are never more than the intervals spent; and with a timeout that
\* is zero or negative it makes no probe and returns the timeout error.
C33_WaitForServerPolls ==
    /\ WaitReturnedNil <=> Logged("probe") # {}
    /\ Cardinality(Logged("probe")) <= 1
    /\ \A i \in Logged("probe") : supLog[i].ok
    /\ reported = "timeout" => Logged("probe") = {}
    /\ probes <= elapsed
    /\ timeout <= 0 =>
         /\ probes = 0
         /\ Logged("probe") = {}
         /\ supPc \notin {"parse", "create", "start", "waitReady"} =>
                reported \in {"start", "timeout"}

\* waitForServer returned nil on the first probe that connected, after two
\* probes that failed.
C33_Witness ==
    /\ supPc = "dial"
    /\ probes = 2
    /\ Logged("probe") # {}

\* The token s is the flag n written with d dashes, alone or followed by "="
\* and an inline value.
WrittenAs(s, n, d) ==
    /\ Len(s) > d
    /\ \A i \in 1..d : s[i] = "-"
    /\ s[d + 1] = n
    /\ Len(s) > d + 1 => s[d + 2] = "="

\* The first token of args is the flag n with one or two dashes.
FirstIsFlag(args, n) ==
    /\ Len(args) >= 1
    /\ \E d \in {1, 2} : WrittenAs(args[1], n, d)

\* The first token of args is a flag: it begins with a dash, has more than
\* one character and is not the bare "--".
FirstIsAnyFlag(args) ==
    /\ Len(args) >= 1
    /\ Len(args[1]) >= 2
    /\ args[1][1] = "-"
    /\ args[1] # <<"-", "-">>

\* The token s carries an inline value.
HasInline(s) == \E i \in 1..Len(s) : s[i] = "="

\* The inline value of s: what follows its first "=".
InlineValue(s) ==
    LET i == CHOOSE k \in 1..Len(s) : s[k] = "=" /\ \A j \in 1..(k - 1) : s[j] # "="
    IN SubSeq(s, i + 1, Len(s))

\* C34: parseFuncName returns ok with the value exactly when the first token
\* is the flag name with one or two dashes and a value is there, inline after
\* "=" or as the next token; it returns the help error exactly when the first
\* token is the flag help or h; any other flag gives an error; a first token
\* that is no flag, or the bare "--", gives ok false and no error.
C34_ParseFuncName ==
    clParsed # NoParse =>
        /\ clParsed.ok <=>
             /\ FirstIsFlag(clArgs, "name")
             /\ HasInline(clArgs[1]) \/ Len(clArgs) >= 2
        /\ clParsed.ok =>
             /\ clParsed.err = "nil"
             /\ clParsed.value = IF HasInline(clArgs[1])
                                 THEN InlineValue(clArgs[1])
                                 ELSE clArgs[2]
        /\ clParsed.err = "help" <=>
             FirstIsFlag(clArgs, "help") \/ FirstIsFlag(clArgs, "h")
        /\ FirstIsAnyFlag(clArgs) /\ ~clParsed.ok => clParsed.err # "nil"
        /\ ~FirstIsAnyFlag(clArgs) => ~clParsed.ok /\ clParsed.err = "nil"

\* parseFuncName took the value written inline after "=".
C34_Witness ==
    /\ clParsed.ok
    /\ clArgs[1] = <<"-", "-", "name", "=", "fn">>
    /\ clParsed.value = <<"fn">>

\* C35: the client has no timeout of its own: once the request is sent, main
\* leaves the wait for the response only with a response received or with
\* the failure of the connection, never because the deadline carried in the
\* request has passed.
C35_NoLocalTimeout ==
    [][supPc = "awaitResponse" /\ supPc' # "awaitResponse" =>
         \/ response' # "none" /\ supPc' = AfterResponse(build)
         \/ response' = "none" /\ supPc' = "exited" /\ reported' = "invoke"]_vars

\* The response came after the deadline of the request had passed, and main
\* took it.
C35_Witness ==
    /\ waited > InvokeDeadline
    /\ response = "payload"
    /\ supPc = "exited"
    /\ printed

\* Execute of call c got past the creation of the pipes and has ended, by a
\* return or by a panic of the program.
ExecuteEnded(c) ==
    /\ pc[c] \in {"restoreContext", "returned", "panicked"}
    /\ \E s \in Streams : drain[c][s] # "none"

\* C36: a call of Execute that got past the creation of the pipes started
\* its two drain goroutines, and when Execute has ended, by a return or by a
\* panic of the program, both have finished and the four pipe ends are closed.
C36_DrainsEndOnEveryExit ==
    \A c \in Callers :
        /\ (\E s \in Streams : drain[c][s] # "none") =>
               (\A s \in Streams : drain[c][s] # "none")
        /\ ExecuteEnded(c) =>
               \A s \in Streams :
                   drain[c][s] = "done" /\ pipeEnd[c][s] = ClosedPipe

\* C37: when writes to the original standard output or standard error fail,
\* the drain goroutines still copy all the program's output into the buffer:
\* Execute returns, and the text it returns holds every token the program
\* wrote.
C37_TeeFailureKeepsCapture ==
    \A c \in Callers :
        (brokenReal # {} /\ result[c].nonnil) =>
            /\ WrittenTokens(c) \subseteq TokensOf(result[c].text)
            /\ Len(result[c].text) = Len(written[c])

\* The tokens of text that the program of call c wrote to stream s, in the
\* order of text.
OfStream(c, s, text) ==
    SelectSeq(text, LAMBDA tok : tok[1] = c /\ written[c][tok[2]] = s)

\* C38: in every capture window the drain of each stream forwards to the
\* wrapper's original handle of that stream what it puts into the buffer, in
\* the same order, and that is the program's writes to the stream in the order
\* made; when Execute returns, what went to the two original handles is what
\* the returned text holds.
C38_TeeEqualsCapture ==
    \A c \in Callers :
        /\ \A s \in Streams :
               /\ teeLog[c][s] = OfStream(c, s, sharedBuffer[c])
               /\ \A i \in 1..Len(teeLog[c][s]) : \A j \in 1..Len(teeLog[c][s]) :
                      i < j => teeLog[c][s][i][2] < teeLog[c][s][j][2]
        /\ result[c].nonnil =>
               /\ \A s \in Streams :
                      /\ teeLog[c][s] = OfStream(c, s, result[c].text)
                      /\ Len(teeLog[c][s]) = Cardinality(WritesTo(c, s))
               /\ TokensOf(teeLog[c]["out"]) \cup TokensOf(teeLog[c]["err"])
                      = TokensOf(result[c].text)
               /\ Len(teeLog[c]["out"]) + Len(teeLog[c]["err"])
                      = Len(result[c].text)

\* A call returned after its program wrote to both streams, and each
\* original handle got its token.
C38_Witness ==
    \E c \in Callers :
        /\ pc[c] = "returned"
        /\ result[c].nonnil
        /\ teeLog[c]["out"] # <<>>
        /\ teeLog[c]["err"] # <<>>

\* C39: for every event that decodes, the demo Handler returns the map with
\* the captured output and does not fault, when the command returned an error
\* and when it returned none.
C39_DemoHandlerReturns ==
    \A c \in Callers :
        (kind[c] = "demo" /\ execErr[c] \in {"nil", "failed"}) =>
            /\ pc[c] # "faulted"
            /\ pc[c] = "returned" =>
                   /\ handlerResult[c].nonnil
                   /\ handlerResult[c].text = result[c].text

====
